---- MODULE Spec2Model ----
(***************************************************************************)
(* A model of the propagation engine of mik2003/astrodynamics:            *)
(*   - the circular trail buffer        (src/src/project/ui/__init__.py)  *)
(*   - the Simstate / Siminteg stores   (src/src/project/utils/*.py)      *)
(*   - the point-mass force kernels     (src/src/project/simulation/model.py) *)
(*   - the fixed-step integrators and the propagator                      *)
(*   - the integrals of motion and their Siminteg cache                   *)
(*     (src/src/project/simulation/integrals.py)                          *)
(*   - the body list and its cached vectors (src/src/project/utils/data.py) *)
(*   - reader sessions on a file shared with its writers                  *)
(*   - the trail sampling of the playback loop                            *)
(*     (Visualization in src/src/project/ui/__init__.py)                  *)
(*                                                                         *)
(* Arrays are TLA+ sequences; Python's 0-based position p of an array a   *)
(* is a[p + 1].  An optional value (Python's None) is the empty tuple,    *)
(* a present value v is <<v>>.  Floating-point payload values are         *)
(* integers: the stores copy them bit for bit, the trail buffer never     *)
(* inspects them.                                                         *)
(***************************************************************************)
EXTENDS Integers, Sequences, FiniteSets, TLC

VARIABLES
    \* ---- CircularTrailBuffer ----
    tArr,      \* self._array: the backing array, one point per row
    tHead,     \* self._head
    tLen,      \* self._len
    tClock,    \* number of points handed out so far (points are numbered in time order)
    tOp,       \* last operation on the buffer and its outcome
    tPrev,     \* full logical read before the last operation
    tPts,      \* the points passed to the last add_points
    tKey,      \* the first index of the last read: an int, or the slice a:b
    tRes       \* what the last read returned

VARIABLES
    \* ---- Simstate / Siminteg store ----
    sPath,     \* the path the behaviour is about (paths do not interact)
    sFile,     \* what is on disk at sPath
    sOrigin,   \* who produced sFile: "none", "writer" or "external"
    sData,     \* the array passed to the write call that produced sFile
    sT,        \* the timestamp array passed to that call, if any
    wPc,       \* where the running write call stands: "idle", "opened", "header"
    wData,     \* the array of the running write call, or of the one that raised
    sOp,       \* last store operation and its outcome
    sBefore,   \* what was on disk when the last write call started
    sKey,      \* the view and key of the last read
    sRes,      \* what the last read returned
    cArgs      \* the (sim, mu) of the last calculate_integrals call

VARIABLES
    \* ---- force kernels ----
    kState,    \* the state vector [r_1 .. r_n, v_1 .. v_n], length 6n
    kN,        \* body count n
    kMu,       \* gravitational parameters, length n
    kOp,       \* last kernel operation
    kOut       \* the derivative each kernel wrote in the last evaluation

VARIABLES
    \* ---- integrators and propagator ----
    iOp,       \* last integrator or propagator call
    iArgs,     \* its arguments
    iOut       \* what it returned: [ok |-> did not raise, rows |-> trajectory]

VARIABLES
    \* ---- BodyList ----
    bBodies,   \* the bodies of the list, each with its r_0 and v_0 (None or a vector)
    bCache,    \* self._r_0 and self._v_0
    bOp,       \* last operation on the list or on one of its bodies
    bRes       \* what the last read of r_0 / v_0 returned

VARIABLES
    \* ---- reader sessions ----
    rSess      \* None, or the file an open SimstateMemmap / SimintegMemmap mapped

VARIABLES
    \* ---- Visualization: playback and trail caches ----
    vis,       \* the fields of the Visualization and of its cache
    vOp,       \* last phase of the main loop: "new", "input" or "frame"
    vInput,    \* whether input or a parameter change arrived since the last frame
    vLog,      \* what the last frame did: the calls of update_trail, in order
    vAdded,    \* the sample frames add_points put in the relative trail since its last rebuild
    vBase      \* the newest sample frame that rebuild put in the relative trail

trailVars == <<tArr, tHead, tLen, tClock, tOp, tPrev, tPts, tKey, tRes>>

storeVars == <<sPath, sFile, sOrigin, sData, sT, wPc, wData, sOp, sBefore, sKey, sRes, cArgs>>

kernelVars == <<kState, kN, kMu, kOp, kOut>>

integVars == <<iOp, iArgs, iOut>>

bodyVars == <<bBodies, bCache, bOp, bRes>>

sessionVars == <<rSess>>

visVars == <<vis, vOp, vInput, vLog, vAdded, vBase>>

vars == <<trailVars, storeVars, kernelVars, integVars, bodyVars, sessionVars, visVars>>

----------------------------------------------------------------------------
(* Bounds *)

\* largest capacity of a trail buffer
MaxLen == 3
\* points handed to the buffers of one behaviour
MaxClock == 8
\* most rows (steps + 1) of a trajectory that is written to a file
MaxRows == 3
\* most bodies of a trajectory that is written to a file
MaxBodies == 2
\* distinct payloads of one shape
MaxSeed == 1
\* largest body count of a kernel evaluation
MaxN == 3
\* stop times are 0, 3, .., 3 * MaxStop
MaxStop == 6
\* largest print_step of a progress-reporting integration
MaxPrintStep == 3
\* distinct vectors a body's r_0 or v_0 is reassigned to
MaxVec == 2
\* sim.steps of the played simulation
MaxSimSteps == 4
\* largest trail_step, in simulation steps
MaxTrailStep == 2
\* most half simulation steps of playback time one frame covers
MaxAdvance == 3

----------------------------------------------------------------------------
(* Python / numpy helpers *)

None == <<>>

Some(v) == <<v>>

Min(a, b) == IF a < b THEN a ELSE b

Max(a, b) == IF a > b THEN a ELSE b

\* an array whose elements are stored: each is computed once, when the array
\* is built
Array(f) == f @@ <<>>

\* F applied to the value of v, v computed once
Let(v, F(_)) == CHOOSE r \in {F(x) : x \in {v}} : TRUE

\* a[p] for a 0-based position p
At(a, p) == a[p + 1]

\* slice(start, stop, step); each field None or Some(integer)
Slice(start, stop, step) == [start |-> start, stop |-> stop, step |-> step]

\* slice.indices(len): the (start, stop, step) Python normalises a slice to
SliceIndices(s, len) ==
    LET step == IF s.step = None THEN 1 ELSE s.step[1]
        lower == IF step < 0 THEN -1 ELSE 0
        upper == IF step < 0 THEN len - 1 ELSE len
        Adj(x, dflt) ==
            IF x = None THEN dflt
            ELSE IF x[1] < 0 THEN Max(x[1] + len, lower)
            ELSE Min(x[1], upper)
        start == Adj(s.start, IF step < 0 THEN upper ELSE lower)
        stop == Adj(s.stop, IF step < 0 THEN lower ELSE upper)
    IN  [start |-> start, stop |-> stop, step |-> step]

\* number of positions a normalised slice selects
SliceLen(ix) ==
    IF ix.step > 0
    THEN IF ix.start < ix.stop THEN (ix.stop - ix.start - 1) \div ix.step + 1 ELSE 0
    ELSE IF ix.stop < ix.start THEN (ix.start - ix.stop - 1) \div (-ix.step) + 1 ELSE 0

\* a[s] for a slice s: numpy basic slicing along the first axis
NpSlice(a, s) ==
    LET ix == SliceIndices(s, Len(a))
    IN  [i \in 1..SliceLen(ix) |-> At(a, ix.start + (i - 1) * ix.step)]

\* a[lo:hi] for integers lo, hi >= 0
NpRange(a, lo, hi) == NpSlice(a, Slice(Some(lo), Some(hi), None))

\* a[lo:hi] = value; numpy broadcasts a one-row value and rejects any other
\* length mismatch
NpAssign(a, lo, hi, value) ==
    LET l == Min(lo, Len(a))
        h == Max(l, Min(hi, Len(a)))
        n == h - l
    IN  IF Len(value) = n
        THEN [ok |-> TRUE,
              arr |-> [p \in 1..Len(a) |->
                          IF p > l /\ p <= h THEN value[p - l] ELSE a[p]]]
        ELSE IF Len(value) = 1
        THEN [ok |-> TRUE,
              arr |-> [p \in 1..Len(a) |->
                          IF p > l /\ p <= h THEN value[1] ELSE a[p]]]
        ELSE [ok |-> FALSE, arr |-> a]

----------------------------------------------------------------------------
(* CircularTrailBuffer *)

\* __getitem__ with an int first index
TrailGetInt(arr, head, len, first) == At(arr, (head + first) % len)

\* a slice read that never wraps: the one physical slice, whatever the range
TrailGetSliceOnePiece(arr, head, len, s) ==
    LET ix == SliceIndices(s, len)
        length == ix.stop - ix.start
        phys_start == (head + ix.start) % len
        phys_stop == (phys_start + length) % len
    IN  NpRange(arr, phys_start, phys_stop)

\* __getitem__ with a slice first index (step 1)
TrailGetSlice(arr, head, len, s) ==
    LET ix == SliceIndices(s, len)
        length == ix.stop - ix.start
        phys_start == (head + ix.start) % len
        phys_stop == (phys_start + length) % len
    IN  IF phys_start < phys_stop
        THEN NpRange(arr, phys_start, phys_stop)
        ELSE NpRange(arr, phys_start, len) \o NpRange(arr, 0, phys_stop)

\* buf[:, :, :], the full logical range
TrailReadAll(arr, head, len) == TrailGetSlice(arr, head, len, Slice(None, None, None))

\* __setitem__ with an int first index
TrailSetInt(arr, head, len, first, value) ==
    [arr EXCEPT ![((head + first) % len) + 1] = value]

\* a plausible slip in the wrapped write: the second part taken from the
\* start of value instead of from first_len on
TrailSetSliceNoOffset(arr, head, len, s, value) ==
    LET ix == SliceIndices(s, len)
        length == ix.stop - ix.start
        phys_start == (head + ix.start) % len
        phys_stop == (phys_start + length) % len
    IN  IF Len(value) # length
        THEN [ok |-> FALSE, arr |-> arr]
        ELSE IF phys_start < phys_stop
        THEN NpAssign(arr, phys_start, phys_stop, value)
        ELSE LET a1 == NpAssign(arr, phys_start, len,
                                NpRange(value, 0, len - phys_start))
             IN  IF ~a1.ok THEN a1
                 ELSE NpAssign(a1.arr, 0, phys_stop, NpRange(value, 0, phys_stop))

\* __setitem__ with a slice first index (step 1): the resulting array, and
\* whether the call returned (ok) or raised
TrailSetSlice(arr, head, len, s, value) ==
    LET ix == SliceIndices(s, len)
        length == ix.stop - ix.start
        phys_start == (head + ix.start) % len
        phys_stop == (phys_start + length) % len
        first_len == len - phys_start
    IN  IF Len(value) # length
        THEN [ok |-> FALSE, arr |-> arr]
        ELSE IF phys_start < phys_stop
        THEN NpAssign(arr, phys_start, phys_stop, value)
        ELSE LET a1 == NpAssign(arr, phys_start, len, NpRange(value, 0, first_len))
             IN  IF ~a1.ok THEN a1
                 ELSE NpAssign(a1.arr, 0, phys_stop,
                               NpRange(value, first_len, Len(value)))

\* an advance that lets the head run past the end of the backing array
TrailAdvanceUnwrapped(head, len, n) == head + n

\* _advance(n)
TrailAdvance(head, len, n) == (head + n) % len

\* add_points(points): self[-n:, :, :] = points, then _advance(n)
TrailAddPoints(arr, head, len, points) ==
    LET n == Len(points)
        w == TrailSetSlice(arr, head, len, Slice(Some(-n), None, None), points)
    IN  IF w.ok
        THEN [ok |-> TRUE, arr |-> w.arr, head |-> TrailAdvance(head, len, n)]
        ELSE [ok |-> FALSE, arr |-> w.arr, head |-> head]

NoTrailKey == [a |-> 0, b |-> 0]

\* CircularTrailBuffer(array, head): the rows are numbered in the order the
\* buffer reads them, oldest first
TrailInit ==
    /\ tLen \in 1..MaxLen
    /\ tHead \in 0..(tLen - 1)
    /\ tArr = [p \in 1..tLen |-> ((p - 1 - tHead) % tLen) + 1]
    /\ tClock = tLen
    /\ tOp = "new"
    /\ tPrev = <<>>
    /\ tPts = <<>>
    /\ tKey = NoTrailKey
    /\ tRes = <<>>

\* the k points that follow the tClock points handed out so far
NewPoints(k) == [i \in 1..k |-> tClock + i]

\* buf.add_points(points) with k points, 1 <= k <= L + 1
AddPoints(k) ==
    /\ tClock + k <= MaxClock
    /\ LET pts == NewPoints(k)
           r == TrailAddPoints(tArr, tHead, tLen, pts)
       IN  /\ tPrev' = TrailReadAll(tArr, tHead, tLen)
           /\ tPts' = pts
           /\ tClock' = tClock + k
           /\ tArr' = r.arr
           /\ tHead' = r.head
           /\ tOp' = IF r.ok THEN "add" ELSE "add_raised"
    /\ tKey' = NoTrailKey
    /\ tRes' = <<>>
    /\ UNCHANGED tLen

\* buf[a:b, :, :]
GetSlice(a, b) ==
    /\ tOp' = "get_slice"
    /\ tKey' = [a |-> a, b |-> b]
    /\ tRes' = TrailGetSlice(tArr, tHead, tLen, Slice(Some(a), Some(b), None))
    /\ tPrev' = <<>>
    /\ tPts' = <<>>
    /\ UNCHANGED <<tArr, tHead, tLen, tClock>>

\* buf[i, :, :]
GetInt(i) ==
    /\ tOp' = "get_int"
    /\ tKey' = [a |-> i, b |-> i]
    /\ tRes' = <<TrailGetInt(tArr, tHead, tLen, i)>>
    /\ tPrev' = <<>>
    /\ tPts' = <<>>
    /\ UNCHANGED <<tArr, tHead, tLen, tClock>>

\* the buffer part of a behaviour that is about another component
TrailIdle ==
    /\ tLen = 1 /\ tHead = 0 /\ tArr = <<1>> /\ tClock = 1
    /\ tOp = "new" /\ tPrev = <<>> /\ tPts = <<>>
    /\ tKey = NoTrailKey /\ tRes = <<>>

----------------------------------------------------------------------------
(* Simstate / Siminteg files *)

\* per-step state dimension of a trajectory: [rx, ry, rz, vx, vy, vz]
StateDim == 6
\* columns of a Siminteg payload: energy and the angular-momentum vector
IntegDim == 4
SimstateVersion == 1
SimintegVersion == 2

\* A header stores dt as a float64; dt is counted in halves of a second, so
\* that a header can hold a dt that is not an integer.
DtFloat(dt_int) == 2 * dt_int

\* int(dt): truncation towards zero
PyInt(dt2) == IF dt2 >= 0 THEN dt2 \div 2 ELSE -((-dt2) \div 2)

\* name__dt__steps.<ext>, the name fixed
Path(ext, dt, steps) == [ext |-> ext, dt |-> dt, steps |-> steps]

\* parse_simstate_filename / parse_siminteg_filename: (dt, steps) of a name of
\* the reader's or writer's own extension, and a raise for any other name
ParseFilename(path, ext) ==
    IF path.ext # ext THEN [ok |-> FALSE, dt |-> 0, steps |-> 0]
    ELSE [ok |-> TRUE, dt |-> path.dt, steps |-> path.steps]

Absent == [exists |-> FALSE, hdr |-> None, payload |-> <<>>]

\* struct.pack(HEADER_FMT, MAGIC, VERSION, steps, bodies, state_dim, dt, pad)
SimstateHeader(steps, bodies, state_dim, dt2) ==
    [magic |-> "SIMSTATE", version |-> SimstateVersion, steps |-> steps,
     dims |-> <<bodies, state_dim>>, dt2 |-> dt2]

\* struct.pack(HEADER_FMT, MAGIC, VERSION, steps, integ_dim, dt, pad)
SimintegHeader(steps, integ_dim, dt2) ==
    [magic |-> "SIMINTEG", version |-> SimintegVersion, steps |-> steps,
     dims |-> <<integ_dim>>, dt2 |-> dt2]

\* product of the entries of a shape
Prod(shape) ==
    IF Len(shape) = 1 THEN shape[1]
    ELSE IF Len(shape) = 2 THEN shape[1] * shape[2]
    ELSE shape[1] * shape[2] * shape[3]

\* data.tofile(f): the (steps, bodies, dim) array in C order
Flatten(data) ==
    LET bodies == Len(data[1])
        dim == Len(data[1][1])
    IN  [f \in 1..(Len(data) * bodies * dim) |->
            data[((f - 1) \div (bodies * dim)) + 1]
                [(((f - 1) \div dim) % bodies) + 1]
                [((f - 1) % dim) + 1]]

\* np.memmap(..., offset=HEADER_SIZE, shape=(steps, bodies, dim)) over the
\* payload bytes
Reshape(flat, steps, bodies, dim) ==
    [s \in 1..steps |-> [b \in 1..bodies |-> [c \in 1..dim |->
        flat[(s - 1) * bodies * dim + (b - 1) * dim + c]]]]

\* read_header of simstate.py without its version comparison
ReadSimstateHeaderAnyVersion(file) ==
    IF ~file.exists \/ file.hdr = None THEN [ok |-> FALSE, why |-> "short"]
    ELSE IF file.hdr[1].magic # "SIMSTATE" THEN [ok |-> FALSE, why |-> "magic"]
    ELSE [ok |-> TRUE, why |-> ""]

\* read_header of simstate.py: raises on a short file, a foreign magic or
\* another version
ReadSimstateHeader(file) ==
    IF ~file.exists \/ file.hdr = None THEN [ok |-> FALSE, why |-> "short"]
    ELSE IF file.hdr[1].magic # "SIMSTATE" THEN [ok |-> FALSE, why |-> "magic"]
    ELSE IF file.hdr[1].version # SimstateVersion
    THEN [ok |-> FALSE, why |-> "version"]
    ELSE [ok |-> TRUE, why |-> ""]

\* read_header of siminteg.py
ReadSimintegHeader(file) ==
    IF ~file.exists \/ file.hdr = None THEN [ok |-> FALSE, why |-> "short"]
    ELSE IF file.hdr[1].magic # "SIMINTEG" THEN [ok |-> FALSE, why |-> "magic"]
    ELSE IF file.hdr[1].version # SimintegVersion
    THEN [ok |-> FALSE, why |-> "version"]
    ELSE [ok |-> TRUE, why |-> ""]

\* validate_simstate_file of simstate.py: dt_f != int(dt) or steps_f != steps - 1
ValidateSimstateFile(path, file) ==
    LET p == ParseFilename(path, "simstate")
        h == ReadSimstateHeader(file)
    IN  IF ~p.ok THEN [ok |-> FALSE, why |-> "filename"]
        ELSE IF ~h.ok THEN h
        ELSE IF p.dt # PyInt(file.hdr[1].dt2) \/ p.steps # file.hdr[1].steps - 1
        THEN [ok |-> FALSE, why |-> "mismatch"]
        ELSE [ok |-> TRUE, why |-> ""]

\* validate_siminteg_file: the same comparison
ValidateSimintegFile(path, file) ==
    LET p == ParseFilename(path, "siminteg")
        h == ReadSimintegHeader(file)
    IN  IF ~p.ok THEN [ok |-> FALSE, why |-> "filename"]
        ELSE IF ~h.ok THEN h
        ELSE IF p.dt # PyInt(file.hdr[1].dt2) \/ p.steps # file.hdr[1].steps - 1
        THEN [ok |-> FALSE, why |-> "mismatch"]
        ELSE [ok |-> TRUE, why |-> ""]

\* validate_simstate_file of cache.py: dt_f != dt or steps_f != steps - 1
ValidateSimstateFileCache(path, file) ==
    LET p == ParseFilename(path, "simstate")
        h == ReadSimstateHeader(file)
    IN  IF ~p.ok THEN [ok |-> FALSE, why |-> "filename"]
        ELSE IF ~h.ok THEN h
        ELSE IF DtFloat(p.dt) # file.hdr[1].dt2 \/ p.steps # file.hdr[1].steps - 1
        THEN [ok |-> FALSE, why |-> "mismatch"]
        ELSE [ok |-> TRUE, why |-> ""]

\* floats a file must hold after its header for np.memmap(shape=...) in
\* mode "r" to succeed; with the negative dt sentinel, the (steps,) time
\* array after the payload is mapped too
SimstateNeed(h) ==
    Prod(<<h.steps>> \o h.dims) + (IF h.dt2 < 0 THEN h.steps ELSE 0)

\* read_simstate: validate, then map the payload
ReadSimstate(path, file) ==
    LET v == ValidateSimstateFile(path, file)
        h == file.hdr[1]
    IN  IF ~v.ok THEN [ok |-> FALSE, why |-> v.why, mm |-> <<>>]
        ELSE IF Len(file.payload) < SimstateNeed(h)
        THEN [ok |-> FALSE, why |-> "mmap", mm |-> <<>>]
        ELSE [ok |-> TRUE, why |-> "",
              mm |-> Reshape(file.payload, h.steps, h.dims[1], h.dims[2])]

\* read_siminteg: validate, then map the (steps, integ_dim) payload
ReadSiminteg(path, file) ==
    LET v == ValidateSimintegFile(path, file)
        h == file.hdr[1]
    IN  IF ~v.ok THEN [ok |-> FALSE, why |-> v.why]
        ELSE IF Len(file.payload) < Prod(<<h.steps>> \o h.dims)
        THEN [ok |-> FALSE, why |-> "mmap"]
        ELSE [ok |-> TRUE, why |-> ""]

\* read_simstate of cache.py
ReadSimstateCache(path, file) ==
    LET v == ValidateSimstateFileCache(path, file)
        h == file.hdr[1]
    IN  IF ~v.ok THEN [ok |-> FALSE, why |-> v.why]
        ELSE IF Len(file.payload) < Prod(<<h.steps>> \o h.dims)
        THEN [ok |-> FALSE, why |-> "mmap"]
        ELSE [ok |-> TRUE, why |-> ""]

\* an index of a view key: an int or a slice
IntIdx(i) == [kind |-> "int", i |-> i, s |-> Slice(None, None, None)]

SliceIdx(s) == [kind |-> "slice", i |-> 0, s |-> s]

\* a view key: a bare index, or a tuple of one or two indices
BareKey(ix) == [tuple |-> FALSE, items |-> <<ix>>]

TupleKey(items) == [tuple |-> TRUE, items |-> items]

\* "Promote ints to slices for safe indexing": i becomes slice(i, i + 1)
Promote(ix) ==
    IF ix.kind = "int" THEN Slice(Some(ix.i), Some(ix.i + 1), None) ELSE ix.s

\* key normalised into (step, body)
KeyStep(key) == key.items[1]

KeyBody(key) ==
    IF key.tuple /\ Len(key.items) > 1 THEN key.items[2]
    ELSE SliceIdx(Slice(None, None, None))

\* last_dim = slice(0, 3) if self._rv == "r" else slice(3, 6)
LastDim(rv) ==
    IF rv = "r" THEN Slice(Some(0), Some(3), None) ELSE Slice(Some(3), Some(6), None)

\* data[step, body, last_dim] for three slices
NpSlice3(data, step, body, last) ==
    LET rows == NpSlice(data, step)
    IN  [i \in 1..Len(rows) |->
            LET bs == NpSlice(rows[i], body)
            IN  [j \in 1..Len(bs) |-> NpSlice(bs[j], last)]]

\* _RVView.__getitem__
RVGet(mm, rv, key) ==
    NpSlice3(mm, Promote(KeyStep(key)), Promote(KeyBody(key)), LastDim(rv))

\* a transposition that walks the body axis from its end
Transpose021BodiesReversed(data, dim) ==
    [s \in 1..Len(data) |-> [c \in 1..dim |-> [b \in 1..Len(data[s]) |->
        data[s][Len(data[s]) - b + 1][c]]]]

\* np.transpose(data, (0, 2, 1)) of a (steps, bodies, dim) array
Transpose021(data, dim) ==
    [s \in 1..Len(data) |-> [c \in 1..dim |-> [b \in 1..Len(data[s]) |->
        data[s][b][c]]]]

\* _RVVisView.__getitem__: the base view's selection, transposed
RVVisGet(mm, rv, key) ==
    Transpose021(RVGet(mm, rv, key),
                 SliceLen(SliceIndices(LastDim(rv), Len(mm[1][1]))))

\* a validation that accepts any row count
ValidateSimstateDataAnySteps(path, data) ==
    LET p == ParseFilename(path, "simstate")
    IN  IF ~p.ok THEN [ok |-> FALSE, dt |-> 0]
        ELSE [ok |-> TRUE, dt |-> p.dt]

\* validate_simstate_data: the filename must parse and encode rows - 1
ValidateSimstateData(path, data) ==
    LET p == ParseFilename(path, "simstate")
    IN  IF ~p.ok THEN [ok |-> FALSE, dt |-> 0]
        ELSE IF p.steps # Len(data) - 1 THEN [ok |-> FALSE, dt |-> 0]
        ELSE [ok |-> TRUE, dt |-> p.dt]

\* validate_simstate_data with the optional time vector t: its size must be
\* the row count
ValidateSimstateDataT(path, data, t) ==
    IF t # None /\ Len(t[1]) # Len(data) THEN [ok |-> FALSE, dt |-> 0]
    ELSE ValidateSimstateData(path, data)

\* validate_siminteg_data
ValidateSimintegData(path, data) ==
    LET p == ParseFilename(path, "siminteg")
    IN  IF ~p.ok THEN [ok |-> FALSE, dt |-> 0]
        ELSE IF p.steps # Len(data) - 1 THEN [ok |-> FALSE, dt |-> 0]
        ELSE [ok |-> TRUE, dt |-> p.dt]

\* the test payload of make_test_file, generalised: every element differs
Payload(seed, rows, bodies) ==
    [r \in 1..rows |-> [b \in 1..bodies |-> [c \in 1..StateDim |->
        1000 * seed + 100 * (r - 1) + 10 * (b - 1) + (c - 1)]]]

Payloads ==
    {Payload(seed, rows, bodies) :
        seed \in 0..MaxSeed, rows \in 1..MaxRows, bodies \in 1..MaxBodies}

\* a (steps, 4) array of integrals
IntegPayload(seed, rows) ==
    [r \in 1..rows |-> [c \in 1..IntegDim |-> 1000 * seed + 10 * (r - 1) + (c - 1)]]

\* data.tofile(f) for a (steps, integ_dim) array
Flatten2(data) ==
    LET dim == Len(data[1])
    IN  [f \in 1..(Len(data) * dim) |->
            data[((f - 1) \div dim) + 1][((f - 1) % dim) + 1]]

\* names with dt = 1, and a Simstate name whose dt is the negative sentinel
StorePaths ==
    {Path(ext, 1, steps) : ext \in {"simstate", "siminteg"}, steps \in 1..(MaxRows - 1)}
    \cup {Path("simstate", -1, 1)}

NoKey == [rv |-> "", key |-> BareKey(IntIdx(0))]

NoCall == [sim |-> <<>>, mu |-> <<>>]

StoreInit ==
    /\ sPath \in StorePaths
    /\ sFile = Absent
    /\ sOrigin = "none"
    /\ sData = <<>>
    /\ sT = None
    /\ wPc = "idle"
    /\ wData = <<>>
    /\ sOp = "new"
    /\ sBefore = Absent
    /\ sKey = NoKey
    /\ sRes = <<>>
    /\ cArgs = NoCall

\* the outcomes of the operations that leave the store as it is: opening a
\* file, reading through a view, loading a cache, a call that raised
ReadOps ==
    {"view", "vis", "t", "t_raised", "open_raised", "open_integ",
     "open_integ_raised", "open_cache", "open_cache_raised",
     "integrals_loaded", "integrals_raised", "write_raised",
     "write_integ_raised"}

\* Such an operation changes nothing on disk, so the steps after it reach
\* nothing the steps from the state before it do not reach: every step
\* starts from a state that holds no such outcome.
Settled == sOp \notin ReadOps

\* a step that is no read leaves no read result behind
NoRead == sKey' = NoKey /\ sRes' = <<>> /\ cArgs' = NoCall

\* write_simstate(filename, data, t) up to open(filename, "wb"): the checks, then
\* the file is created or truncated
WriteSimstateOpen(data, t) ==
    /\ Settled
    /\ wPc = "idle"
    /\ sBefore' = sFile
    /\ IF ValidateSimstateDataT(sPath, data, t).ok
       THEN /\ sFile' = [exists |-> TRUE, hdr |-> None, payload |-> <<>>]
            /\ sOrigin' = "writer" /\ sT' = t
            /\ sData' = <<>>
            /\ wPc' = "opened"
            /\ wData' = data
            /\ sOp' = "write_open"
       ELSE /\ sOp' = "write_raised"
            /\ wData' = data
            /\ UNCHANGED <<sFile, sOrigin, sData, sT, wPc>>
    /\ NoRead
    /\ UNCHANGED sPath

\* write_header(f, steps, bodies, state_dim, dt); the bytes reach the file
\* when tofile flushes f before writing the payload
WriteSimstateHeader ==
    /\ Settled
    /\ wPc = "opened"
    /\ sFile' = [sFile EXCEPT !.hdr =
                    Some(SimstateHeader(Len(wData), Len(wData[1]), Len(wData[1][1]),
                                        DtFloat(ValidateSimstateData(sPath, wData).dt)))]
    /\ wPc' = "header"
    /\ sOp' = "write_header"
    /\ sBefore' = Absent
    /\ NoRead
    /\ UNCHANGED <<sPath, sOrigin, sData, sT, wData>>

\* data.tofile(f), one row of the array after the other; the file is closed
\* after the last one
WriteSimstatePayload ==
    /\ Settled
    /\ wPc = "header"
    /\ LET flat == Flatten(wData)
           row == Len(flat) \div Len(wData)
           have == Len(sFile.payload)
       IN  /\ sFile' = [sFile EXCEPT !.payload = SubSeq(flat, 1, have + row)]
           /\ IF have + row = Len(flat)
              THEN /\ wPc' = "idle" /\ wData' = <<>> /\ sData' = wData
                   /\ sOp' = "write_done"
              ELSE /\ sOp' = "write_row"
                   /\ UNCHANGED <<wPc, wData, sData>>
    /\ sBefore' = Absent
    /\ NoRead
    /\ UNCHANGED <<sPath, sOrigin, sT>>

\* the writing process is interrupted between two write steps
WriteKilled ==
    /\ Settled
    /\ wPc # "idle"
    /\ wPc' = "idle"
    /\ wData' = <<>>
    /\ sOp' = "write_killed"
    /\ sBefore' = Absent
    /\ NoRead
    /\ UNCHANGED <<sPath, sFile, sOrigin, sData, sT>>

\* write_siminteg(filename, data)
WriteSiminteg(data) ==
    /\ Settled
    /\ wPc = "idle"
    /\ sBefore' = sFile
    /\ LET v == ValidateSimintegData(sPath, data)
       IN  IF v.ok
           THEN /\ sFile' = [exists |-> TRUE,
                             hdr |-> Some(SimintegHeader(Len(data), Len(data[1]),
                                                         DtFloat(v.dt))),
                             payload |-> Flatten2(data)]
                /\ sOrigin' = "writer" /\ sT' = None
                /\ sData' = data
                /\ sOp' = "write_integ_done"
                /\ UNCHANGED wData
           ELSE /\ sOp' = "write_integ_raised"
                /\ wData' = data
                /\ UNCHANGED <<sFile, sOrigin, sData, sT>>
    /\ NoRead
    /\ UNCHANGED <<sPath, wPc>>

\* np.arange(steps) * dt, dt the header's float
ArangeTimes(steps, dt2) == [i \in 1..steps |-> (i - 1) * dt2]

\* an explicit, irregular time vector of k entries
IrregularTimes(k) == [i \in 1..k |-> 2 * i * i]

\* the t arguments of a write of rows rows: none, a vector of the right size,
\* a vector one entry too long
TimeVectors(rows) == {None, Some(IrregularTimes(rows)), Some(IrregularTimes(rows + 1))}

\* header dt values of files that did not come from this writer: the
\* sentinel -1.0, and 1.0, 1.5, 2.0
ExternalDts == {-2, 2, 3, 4}

\* files another program, a rename or an older run left at the path: every
\* header over the bounds, with a full payload (followed by the time vector
\* when dt is the sentinel) or one that misses a float
ExternalFiles ==
    {[exists |-> TRUE,
      hdr |-> Some([magic |-> m, version |-> ver, steps |-> st,
                    dims |-> IF m = "SIMSTATE" THEN <<bd, StateDim>> ELSE <<IntegDim>>,
                    dt2 |-> d]),
      payload |-> IF m = "SIMSTATE"
                  THEN LET all == Flatten(Payload(0, st, bd))
                                      \o (IF d < 0 THEN IrregularTimes(st) ELSE <<>>)
                       IN  SubSeq(all, 1, Len(all) - cut)
                  ELSE SubSeq(Flatten2(IntegPayload(0, st)), 1, st * IntegDim - cut)] :
        m \in {"SIMSTATE", "SIMINTEG"}, ver \in {SimstateVersion, SimintegVersion},
        st \in 2..MaxRows, bd \in {MaxBodies}, d \in ExternalDts, cut \in {0, 1}}

ExternalFile(f) ==
    /\ Settled
    /\ wPc = "idle"
    /\ sFile' = f
    /\ sOrigin' = "external" /\ sT' = None
    /\ sData' = <<>>
    /\ sOp' = "external"
    /\ sBefore' = Absent
    /\ NoRead
    /\ UNCHANGED <<sPath, wPc, wData>>

ViewInts == (-2)..(MaxRows - 1)

ViewSlices ==
    {Slice(None, None, None), Slice(Some(0), Some(2), None),
     Slice(Some(1), None, None), Slice(Some(0), Some(3), Some(2)),
     Slice(None, None, Some(-1)), Slice(Some(-2), None, None)}

ViewIndices == {IntIdx(i) : i \in ViewInts} \cup {SliceIdx(sl) : sl \in ViewSlices}

ViewKeys ==
    {BareKey(ix) : ix \in ViewIndices}
    \cup {TupleKey(<<ix>>) : ix \in ViewIndices}
    \cup {TupleKey(<<ix, iy>>) : ix \in ViewIndices, iy \in ViewIndices}

\* SimstateMemmap(filename).r[key] / .v[key]
ReadView(rv, key) ==
    /\ Settled
    /\ LET o == ReadSimstate(sPath, sFile)
       IN  IF o.ok
           THEN /\ sOp' = "view"
                /\ sRes' = RVGet(o.mm, rv, key)
                /\ sKey' = [rv |-> rv, key |-> key]
                /\ cArgs' = NoCall
           ELSE /\ sOp' = "open_raised"
                /\ NoRead
    /\ sBefore' = Absent
    /\ UNCHANGED <<sPath, sFile, sOrigin, sData, sT, wPc, wData>>

\* SimstateMemmap(filename).r_vis[key] / .v_vis[key]
ReadVis(rv, key) ==
    /\ Settled
    /\ LET o == ReadSimstate(sPath, sFile)
       IN  IF o.ok
           THEN /\ sOp' = "vis"
                /\ sRes' = RVVisGet(o.mm, rv, key)
                /\ sKey' = [rv |-> rv, key |-> key]
                /\ cArgs' = NoCall
           ELSE /\ sOp' = "open_raised"
                /\ NoRead
    /\ sBefore' = Absent
    /\ UNCHANGED <<sPath, sFile, sOrigin, sData, sT, wPc, wData>>

\* SimstateMemmap(filename).t: the (steps,) array mapped after the payload
\* when the header's dt is negative, np.arange(steps) * dt otherwise
ReadT ==
    /\ Settled
    /\ LET o == ReadSimstate(sPath, sFile)
           h == sFile.hdr[1]
           n == Prod(<<h.steps>> \o h.dims)
       IN  IF o.ok
           THEN /\ sOp' = "t"
                /\ sRes' = IF h.dt2 < 0 THEN SubSeq(sFile.payload, n + 1, n + h.steps)
                           ELSE ArangeTimes(h.steps, h.dt2)
                /\ sKey' = [rv |-> "t", key |-> BareKey(IntIdx(0))]
                /\ cArgs' = NoCall
           ELSE /\ sOp' = "t_raised"
                /\ NoRead
    /\ sBefore' = Absent
    /\ UNCHANGED <<sPath, sFile, sOrigin, sData, sT, wPc, wData>>

\* SimintegMemmap(filename)
OpenSiminteg ==
    /\ Settled
    /\ sOp' = IF ReadSiminteg(sPath, sFile).ok THEN "open_integ" ELSE "open_integ_raised"
    /\ sBefore' = Absent
    /\ NoRead
    /\ UNCHANGED <<sPath, sFile, sOrigin, sData, sT, wPc, wData>>

\* Memmap(filename) of cache.py
OpenCache ==
    /\ Settled
    /\ sOp' = IF ReadSimstateCache(sPath, sFile).ok THEN "open_cache" ELSE "open_cache_raised"
    /\ sBefore' = Absent
    /\ NoRead
    /\ UNCHANGED <<sPath, sFile, sOrigin, sData, sT, wPc, wData>>

\* the store part of a behaviour that is about another component
StoreIdle ==
    /\ sPath = Path("simstate", 1, 1)
    /\ sFile = Absent /\ sOrigin = "none" /\ sData = <<>> /\ sT = None
    /\ wPc = "idle" /\ wData = <<>> /\ sOp = "new" /\ sBefore = Absent
    /\ sKey = NoKey /\ sRes = <<>> /\ cArgs = NoCall

----------------------------------------------------------------------------
(* Force kernels *)

\* An acceleration component is a sum of terms coeff * r2^(-3/2), one for
\* each squared distance r2 between two bodies. It is held exactly, as the
\* integer coefficient of each r2; nan records a term 0 * inf.
SymZero(keys) == [nan |-> FALSE, c |-> Array([k \in keys |-> 0])]

\* s + coeff * inv_r3, where inv_r3 is 1 / (r2 * sqrt(r2)); for r2 = 0 the
\* displacement is 0 and inv_r3 is inf, and zero_dist is what 0 * inf yields
SymAcc(s, r2, coeff, zero_dist) ==
    IF r2 = 0
    THEN IF zero_dist = "nan" THEN [s EXCEPT !.nan = TRUE] ELSE s
    ELSE [s EXCEPT !.c[r2] = @ + coeff]

\* component c of the position of body i: state[3 * i + c], 1-based
Pos(state, i, c) == state[3 * (i - 1) + c]

\* dx * dx + dy * dy + dz * dz
Dist2(state, i, j) ==
    (Pos(state, i, 1) - Pos(state, j, 1)) * (Pos(state, i, 1) - Pos(state, j, 1))
    + (Pos(state, i, 2) - Pos(state, j, 2)) * (Pos(state, i, 2) - Pos(state, j, 2))
    + (Pos(state, i, 3) - Pos(state, j, 3)) * (Pos(state, i, 3) - Pos(state, j, 3))

DistKeys(state, n) == {Dist2(state, i, j) : i, j \in 1..n} \ {0}

\* np.sum over a sequence of terms, in order
RECURSIVE SymSum(_, _, _)
SymSum(terms, j, s) ==
    IF j > Len(terms) THEN s
    ELSE SymSum(terms, j + 1, SymAcc(s, terms[j].r2, terms[j].coeff, terms[j].zero))

\* point_mass_numpy: out[:3n] = state[3n:]; a[i] = sum over all j of
\* r_ij * mu[j] * inv_r3[i, j], the diagonal of dist_sq set to inf so that
\* inv_r3[i, i] = 0 and the term j = i adds 0
point_mass_numpy(state, n, mu) ==
    [vel |-> Array([k \in 1..(3 * n) |-> state[k + 3 * n]]),
     acc |-> Array([k \in 1..(3 * n) |->
        LET i == ((k - 1) \div 3) + 1
            c == ((k - 1) % 3) + 1
            terms == [j \in 1..n |->
                IF j = i
                THEN [r2 |-> 0, coeff |-> 0, zero |-> "zero"]
                ELSE [r2 |-> Dist2(state, i, j),
                      coeff |-> (Pos(state, j, c) - Pos(state, i, c)) * mu[j],
                      zero |-> "nan"]]
        IN  SymSum(terms, 1, SymZero(DistKeys(state, n)))])]

\* what 0 * inf can yield in code compiled with fastmath, which lets the
\* compiler assume that no operand is inf or nan
FastMathOutcomes == {"nan", "zero"}

\* the pair-loop body below with the two gravitational parameters exchanged
NumbaPairSwapped(state, n, mu, fm, out, i, j) ==
    LET r2 == Dist2(state, i, j)
    IN  Array([k \in 1..(3 * n) |->
            LET b == ((k - 1) \div 3) + 1
                c == ((k - 1) % 3) + 1
                d == Pos(state, i, c) - Pos(state, j, c)
            IN  IF b = i THEN SymAcc(out[k], r2, -(mu[i] * d), fm)
                ELSE IF b = j THEN SymAcc(out[k], r2, mu[j] * d, fm)
                ELSE out[k]])

\* the body of the pair loop of point_mass_numba for i < j, on component c:
\* out[i] -= mj * fx; out[j] += mi * fx with fx = dx * inv_r3
NumbaPair(state, n, mu, fm, out, i, j) ==
    LET r2 == Dist2(state, i, j)
    IN  Array([k \in 1..(3 * n) |->
            LET b == ((k - 1) \div 3) + 1
                c == ((k - 1) % 3) + 1
                d == Pos(state, i, c) - Pos(state, j, c)
            IN  IF b = i THEN SymAcc(out[k], r2, -(mu[j] * d), fm)
                ELSE IF b = j THEN SymAcc(out[k], r2, mu[i] * d, fm)
                ELSE out[k]])

\* for i in range(n): for j in range(i + 1, n): ..., the pairs numbered
\* p = n * i + j
RECURSIVE NumbaLoop(_, _, _, _, _, _)
NumbaLoop(state, n, mu, fm, out, p) ==
    IF p >= n * n THEN out
    ELSE LET i == (p \div n) + 1
             j == (p % n) + 1
         IN  Let(IF j > i THEN NumbaPair(state, n, mu, fm, out, i, j) ELSE out,
                 LAMBDA next : NumbaLoop(state, n, mu, fm, next, p + 1))

\* point_mass_numba: velocities copied, accelerations zeroed, then the
\* pair-symmetric accumulation
point_mass_numba(state, n, mu, fm) ==
    [vel |-> Array([k \in 1..(3 * n) |-> state[k + 3 * n]]),
     acc |-> NumbaLoop(state, n, mu, fm,
                       Array([k \in 1..(3 * n) |-> SymZero(DistKeys(state, n))]), 0)]

\* point_mass_cpp(state, mu, out): out[3n + 3i + c] = sum over j # i of
\* mu[j] * (r_j - r_i) / |r_j - r_i|^3, n being the length of mu
point_mass_cpp(state, mu) ==
    LET n == Len(mu)
    IN  [vel |-> Array([k \in 1..(3 * n) |-> state[k + 3 * n]]),
         acc |-> Array([k \in 1..(3 * n) |->
            LET i == ((k - 1) \div 3) + 1
                c == ((k - 1) % 3) + 1
                others == SelectSeq([j \in 1..n |-> j], LAMBDA j : j # i)
                terms == [q \in 1..Len(others) |->
                    [r2 |-> Dist2(state, i, others[q]),
                     coeff |-> mu[others[q]] * (Pos(state, others[q], c) - Pos(state, i, c)),
                     zero |-> "nan"]]
            IN  SymSum(terms, 1, SymZero(DistKeys(state, n)))])]

\* positions, velocities and gravitational parameters of the evaluated states
KernelPositions == {<<0, 0, 0>>, <<1, 0, 0>>, <<0, 2, 0>>, <<1, 2, 2>>}

\* every body at rest, or body b moving with (b, -b, 2b)
KernelVelocities(n) ==
    {[b \in 1..n |-> <<0, 0, 0>>], [b \in 1..n |-> <<b, -b, 2 * b>>]}

\* equal gravitational parameters, or body b with mu = b + 1
KernelMus(n) == {[b \in 1..n |-> 2], [b \in 1..n |-> b + 1]}

\* np.hstack of the per-body vectors
RECURSIVE HStack(_)
HStack(vs) == IF vs = <<>> THEN <<>> ELSE Head(vs) \o HStack(Tail(vs))

KernelInit ==
    /\ kN \in 1..MaxN
    /\ \E r \in [1..kN -> KernelPositions], v \in KernelVelocities(kN) :
          kState = HStack(r) \o HStack(v)
    /\ kMu \in KernelMus(kN)
    /\ kOp = "new"
    /\ kOut = <<>>

\* the three kernels called on the same state, as the consistency test does
Evaluate(fm) ==
    /\ kOp = "new"
    /\ kOut' = [numpy |-> point_mass_numpy(kState, kN, kMu),
                numba |-> point_mass_numba(kState, kN, kMu, fm),
                cpp |-> point_mass_cpp(kState, kMu)]
    /\ kOp' = "evaluate"
    /\ UNCHANGED <<kState, kN, kMu>>

\* the kernel part of a behaviour that is about another component
KernelIdle ==
    /\ kState = <<>> /\ kN = 0 /\ kMu = <<>> /\ kOp = "new" /\ kOut = <<>>

----------------------------------------------------------------------------
(* Integrators *)

\* Trajectories are held on the integer grid. Time steps are multiples of 6,
\* so that time_step / 2 and time_step / 6 are exact.

\* floor(sqrt(x)) by bisection, lo * lo <= x < hi * hi
RECURSIVE Isqrt(_, _, _)
Isqrt(x, lo, hi) ==
    IF hi - lo <= 1 THEN lo
    ELSE LET mid == (lo + hi) \div 2
         IN  IF mid * mid <= x THEN Isqrt(x, mid, hi) ELSE Isqrt(x, lo, mid)

\* a / b rounded towards zero, b > 0
Trunc(a, b) == IF a >= 0 THEN a \div b ELSE -((-a) \div b)

\* the grid value of an acceleration component: each term coeff / r2 / sqrt(r2)
\* rounded; a nan has no grid value
RECURSIVE Num(_, _)
Num(s, keys) ==
    IF s.nan THEN CHOOSE v \in {} : v = s
    ELSE IF keys = {} THEN 0
    ELSE LET r2 == CHOOSE k \in keys : TRUE
         IN  Trunc(Trunc(s.c[r2], r2), Isqrt(r2, 0, r2 + 1)) + Num(s, keys \ {r2})

\* func(state, out, n=n, mu=mu) for func one of NumpyPointMass,
\* NumbaPointMass, CPPPointMass, or a kernel object that evaluates as
\* NumpyPointMass and also has an _euler_backend: the derivative written to out
Func(kernel, state, n, mu) ==
    Let(CASE kernel \in {"numpy", "euler_capable"} -> point_mass_numpy(state, n, mu)
          [] kernel = "numba" -> point_mass_numba(state, n, mu, "nan")
          [] kernel = "cpp" -> point_mass_cpp(state, mu),
        LAMBDA d : d.vel \o Array([k \in 1..(3 * n) |->
                                      Num(d.acc[k], DOMAIN d.acc[k].c)]))

\* the smallest integer not below a / b, b # 0
CeilDiv(a, b) == IF b > 0 THEN -((-a) \div b) ELSE -(a \div (-b))

\* np.arange(start=0, stop=stop, step=step).size; a zero step raises
ArangeSize(stop, step) ==
    IF step = 0 THEN None ELSE Some(Max(0, CeilDiv(stop, step)))

\* int(a / b): float division, then truncation towards zero; b = 0 raises
IntDiv(a, b) ==
    IF b = 0 THEN None
    ELSE Some(IF b > 0 THEN Trunc(a, b) ELSE Trunc(-a, -b))

Raised == [ok |-> FALSE, rows |-> <<>>]

Returned(rows) == [ok |-> TRUE, rows |-> rows]

\* y[i, :] + time_step * tmp
EulerStep(y, time_step, kernel, n, mu) ==
    Let(Func(kernel, y, n, mu),
        LAMBDA tmp : Array([k \in 1..Len(y) |-> y[k] + time_step * tmp[k]]))

\* the four stages of Integrator._rk4 and the weighted sum
Rk4Step(y, time_step, kernel, n, mu) ==
    Let(Func(kernel, y, n, mu), LAMBDA k1 :
    Let(Func(kernel, Array([k \in 1..Len(y) |-> y[k] + (k1[k] * time_step) \div 2]), n, mu),
        LAMBDA k2 :
    Let(Func(kernel, Array([k \in 1..Len(y) |-> y[k] + (k2[k] * time_step) \div 2]), n, mu),
        LAMBDA k3 :
    Let(Func(kernel, Array([k \in 1..Len(y) |-> y[k] + k3[k] * time_step]), n, mu),
        LAMBDA k4 :
    Array([k \in 1..Len(y) |->
        y[k] + (time_step \div 6) * (k1[k] + 2 * k2[k] + 2 * k3[k] + k4[k])])))))

\* the loop body of _rk4_numba: the stages call point_mass_numba
Rk4NumbaStep(y, time_step, n, mu) ==
    Let(Func("numba", y, n, mu), LAMBDA k1 :
    Let(Func("numba", Array([k \in 1..Len(y) |-> y[k] + (time_step \div 2) * k1[k]]), n, mu),
        LAMBDA k2 :
    Let(Func("numba", Array([k \in 1..Len(y) |-> y[k] + (time_step \div 2) * k2[k]]), n, mu),
        LAMBDA k3 :
    Let(Func("numba", Array([k \in 1..Len(y) |-> y[k] + time_step * k3[k]]), n, mu),
        LAMBDA k4 :
    Array([k \in 1..Len(y) |->
        y[k] + (time_step \div 6) * (k1[k] + 2 * k2[k] + 2 * k3[k] + k4[k])])))))

\* one step of the named scheme
Step(scheme, y, time_step, kernel, n, mu) ==
    CASE scheme = "euler" -> EulerStep(y, time_step, kernel, n, mu)
      [] scheme = "rk4" -> Rk4Step(y, time_step, kernel, n, mu)
      [] scheme = "rk4_numba" -> Rk4NumbaStep(y, time_step, n, mu)

\* y[0] = state; for i in range(steps - 1): y[i + 1] = step(y[i]), steps >= 1
RECURSIVE Loop(_, _, _, _, _, _, _)
Loop(scheme, rows, steps, time_step, kernel, n, mu) ==
    IF Len(rows) >= steps THEN rows
    ELSE Let(rows[Len(rows)], LAMBDA y :
         Let(Append(rows, Step(scheme, y, time_step, kernel, n, mu)), LAMBDA next :
         Loop(scheme, next, steps, time_step, kernel, n, mu)))

\* Integrator._euler and Integrator._rk4: the row count is the size of
\* np.arange(0, stop_time + time_step, time_step); with no row, y[0, :] = state
\* raises
Generic(scheme, state, time_step, stop_time, kernel, n, mu) ==
    LET size == ArangeSize(stop_time + time_step, time_step)
    IN  IF size = None \/ size = Some(0) THEN Raised
        ELSE Returned(Loop(scheme, <<state>>, size[1], time_step, kernel, n, mu))

\* _rk4_numba(state, time_step, steps, n, mu, out): np.empty refuses a
\* negative row count; with no row, y[0] = state stores outside the array in
\* code compiled without bounds checks, and oob is what then happens
Rk4Numba(state, time_step, steps, n, mu, oob) ==
    IF steps < 0 THEN Raised
    ELSE IF steps = 0 THEN (IF oob = "crash" THEN Raised ELSE Returned(<<>>))
    ELSE Returned(Loop("rk4_numba", <<state>>, steps, time_step, "numba", n, mu))

OutOfBoundsOutcomes == {"crash", "empty"}

\* the batches of _rk4_backend: the first of print_step + 1 rows, each later
\* one started from the last row so far and appended without its first row
RECURSIVE Batches(_, _, _, _, _, _, _)
Batches(rows, i, progress_steps, time_step, print_step, n, mu) ==
    IF i >= progress_steps THEN rows
    ELSE Let(IF i = 0 THEN rows[1] ELSE rows[Len(rows)], LAMBDA from :
         Let(Loop("rk4_numba", <<from>>, print_step + 1, time_step, "numba", n, mu),
             LAMBDA batch :
         Let(IF i = 0 THEN batch ELSE rows \o Tail(batch), LAMBDA next :
         Batches(next, i + 1, progress_steps, time_step, print_step, n, mu))))

\* print_step of _rk4_backend, Integrator.rk4 and Propagator when not given
DefaultPrintStep == 10000

\* NumbaPointMass._rk4_backend, print_step >= 1
Rk4Backend(state, time_step, stop_time, n, mu, progress, print_step, oob) ==
    LET q == IntDiv(stop_time, time_step)
        steps == q[1] + 1
        progress_steps == steps \div print_step
        remainder == steps % print_step
    IN  IF q = None THEN Raised
        ELSE IF ~progress THEN Rk4Numba(state, time_step, steps, n, mu, oob)
        ELSE Let(IF progress_steps > 0
                 THEN Batches(<<state>>, 0, progress_steps, time_step, print_step, n, mu)
                 ELSE <<>>,
                 LAMBDA out :
             IF remainder > 0
             THEN IF progress_steps < 0 THEN Raised
                  ELSE Let(IF progress_steps = 0 THEN state ELSE out[Len(out)],
                           LAMBDA last_state :
                       Let(Loop("rk4_numba", <<last_state>>, remainder, time_step,
                                "numba", n, mu),
                           LAMBDA last :
                       IF remainder > 1 /\ progress_steps # 0
                       THEN Returned(out \o Tail(last))
                       ELSE Returned(out \o last)))
             ELSE IF out = <<>> THEN Raised
             ELSE Returned(out))

\* no kernel passes the isinstance test
RK4CapableNone(kernel) == FALSE

\* isinstance(func, RK4Capable): func has an attribute _rk4_backend
RK4Capable(kernel) == kernel = "numba"

\* isinstance(func, EulerCapable): func has an attribute _euler_backend; no
\* kernel of model.py has one, a caller's own kernel object may
EulerCapable(kernel) == kernel = "euler_capable"

\* the _euler_backend of that kernel object: one row that no generic loop
\* returns, since row 0 of a generic trajectory is the state itself
EulerBackend(state, time_step, stop_time) ==
    Returned(<<[k \in 1..Len(state) |-> -state[k] - 1]>>)

\* Integrator.euler: a kernel with an _euler_backend gets (state, time_step,
\* stop_time, n=n, mu=mu)
IntegratorEuler(state, time_step, stop_time, kernel, n, mu) ==
    IF EulerCapable(kernel)
    THEN EulerBackend(state, time_step, stop_time)
    ELSE Generic("euler", state, time_step, stop_time, kernel, n, mu)

\* Integrator.rk4: a kernel with an _rk4_backend gets (state, time_step,
\* stop_time, n, mu) and runs with its own progress and print_step defaults
IntegratorRk4(state, time_step, stop_time, kernel, n, mu) ==
    IF RK4Capable(kernel)
    THEN Rk4Backend(state, time_step, stop_time, n, mu, TRUE, DefaultPrintStep, "crash")
    ELSE Generic("rk4", state, time_step, stop_time, kernel, n, mu)

\* a[lo:] for an integer lo >= 0
NpFrom(a, lo) == NpSlice(a, Slice(Some(lo), None, None))

\* row.reshape(n, 3) of a flat row of 3n values, C order
Reshape3(row, n) == Array([b \in 1..n |-> Array([c \in 1..3 |-> row[3 * (b - 1) + c]])])

\* the flat rows read as n blocks of 6 values, one block per body
SimstateViewBodyBlocks(y, n) ==
    Array([s \in 1..Len(y) |-> Array([b \in 1..n |->
        Array([c \in 1..StateDim |-> y[s][StateDim * (b - 1) + c]])])])

\* simstate_view_from_state_view(y, n): y[:, :3n] and y[:, 3n:] reshaped to
\* (steps, n, 3) each and concatenated along the last axis
SimstateView(y, n) ==
    Array([s \in 1..Len(y) |->
        LET y_r == Reshape3(NpRange(y[s], 0, 3 * n), n)
            y_v == Reshape3(NpFrom(y[s], 3 * n), n)
        IN  Array([b \in 1..n |-> y_r[b] \o y_v[b]])])

\* body lists: none, one body, two bodies
IntegScenarios ==
    { [n |-> 0, state |-> <<>>, mu |-> <<>>],
      [n |-> 1, state |-> <<0, 0, 0, 1, -1, 2>>, mu |-> <<100>>],
      [n |-> 2, state |-> <<0, 0, 0, 4, 0, 0, 0, 0, 0, 0, 1, 0>>, mu |-> <<64, 8>>],
      [n |-> 2, state |-> <<0, 0, 0, 0, 3, 4, 1, 0, 0, 0, 0, -1>>, mu |-> <<50, 10>>] }

TimeSteps == {-6, 0, 6, 12}

StopTimes == {3 * q : q \in 0..MaxStop}

Kernels == {"numpy", "numba", "cpp"}

NoArgs ==
    [scheme |-> "", kernel |-> "", time_step |-> 0, stop_time |-> 0,
     progress |-> FALSE, print_step |-> 0]

IntegInit ==
    /\ \E sc \in IntegScenarios : kN = sc.n /\ kState = sc.state /\ kMu = sc.mu
    /\ kOp = "new" /\ kOut = <<>>
    /\ sPath \in {Path("simstate", dt, steps) : dt \in {6, 12}, steps \in 0..2}
    /\ sFile = Absent /\ sOrigin = "none" /\ sData = <<>> /\ sT = None
    /\ wPc = "idle" /\ wData = <<>> /\ sOp = "new" /\ sBefore = Absent
    /\ sKey = NoKey /\ sRes = <<>> /\ cArgs = NoCall
    /\ iOp = "new" /\ iArgs = NoArgs /\ iOut = Raised

\* Integrator._euler(state, time_step, stop_time, func, n=n, mu=mu)
GenericEuler(kernel, time_step, stop_time) ==
    /\ iOp = "new" /\ kN > 0
    /\ iOp' = "euler"
    /\ iArgs' = [NoArgs EXCEPT !.scheme = "euler", !.kernel = kernel,
                               !.time_step = time_step, !.stop_time = stop_time]
    /\ iOut' = Generic("euler", kState, time_step, stop_time, kernel, kN, kMu)
    /\ UNCHANGED <<kernelVars, storeVars>>

\* Integrator._rk4(state, time_step, stop_time, func, n=n, mu=mu)
GenericRk4(kernel, time_step, stop_time) ==
    /\ iOp = "new" /\ kN > 0
    /\ iOp' = "rk4"
    /\ iArgs' = [NoArgs EXCEPT !.scheme = "rk4", !.kernel = kernel,
                               !.time_step = time_step, !.stop_time = stop_time]
    /\ iOut' = Generic("rk4", kState, time_step, stop_time, kernel, kN, kMu)
    /\ UNCHANGED <<kernelVars, storeVars>>

\* NumbaPointMass()._rk4_backend(state, time_step, stop_time, n, mu,
\* progress, print_step)
FusedRk4(time_step, stop_time, progress, print_step, oob) ==
    /\ iOp = "new" /\ kN > 0
    /\ iOp' = "rk4_backend"
    /\ iArgs' = [scheme |-> "rk4", kernel |-> "numba", time_step |-> time_step,
                 stop_time |-> stop_time, progress |-> progress,
                 print_step |-> print_step]
    /\ iOut' = Rk4Backend(kState, time_step, stop_time, kN, kMu,
                          progress, print_step, oob)
    /\ UNCHANGED <<kernelVars, storeVars>>

\* Integrator.euler / Integrator.rk4 (state, time_step, stop_time, func,
\* n=n, mu=mu)
CallIntegrator(scheme, kernel, time_step, stop_time) ==
    /\ iOp = "new" /\ kN > 0
    /\ iOp' = "integrator"
    /\ iArgs' = [NoArgs EXCEPT !.scheme = scheme, !.kernel = kernel,
                               !.time_step = time_step, !.stop_time = stop_time]
    /\ iOut' = IF scheme = "euler"
               THEN IntegratorEuler(kState, time_step, stop_time, kernel, kN, kMu)
               ELSE IntegratorRk4(kState, time_step, stop_time, kernel, kN, kMu)
    /\ UNCHANGED <<kernelVars, storeVars>>

\* Propagator(integrator, force_model).propagate(time_step, stop_time,
\* body_list, filename): y_0 of an empty body list raises in np.hstack; the
\* integrator runs; write_simstate checks the row count against the filename
\* and writes header and payload
Propagate(integrator, kernel, time_step, stop_time) ==
    /\ iOp = "new"
    /\ \E y \in {IF kN = 0 THEN Raised
                 ELSE IF integrator = "euler"
                 THEN IntegratorEuler(kState, time_step, stop_time, kernel, kN, kMu)
                 ELSE IntegratorRk4(kState, time_step, stop_time, kernel, kN, kMu)} :
       \E data \in {SimstateView(y.rows, kN)} :
       \E v \in {ValidateSimstateData(sPath, data)} :
          IF ~y.ok
          THEN /\ iOut' = Raised
               /\ UNCHANGED <<sFile, sOrigin, sData, sT, sOp>>
          ELSE IF ~v.ok
          THEN /\ iOut' = Raised
               /\ sOp' = "write_raised"
               /\ UNCHANGED <<sFile, sOrigin, sData, sT>>
          ELSE /\ iOut' = y
               /\ sFile' = [exists |-> TRUE,
                            hdr |-> Some(SimstateHeader(Len(data), kN, StateDim,
                                                        DtFloat(v.dt))),
                            payload |-> Flatten(data)]
               /\ sOrigin' = "writer" /\ sT' = None
               /\ sData' = data
               /\ sOp' = "write_done"
    /\ iOp' = "propagate"
    /\ iArgs' = [scheme |-> integrator, kernel |-> kernel,
                 time_step |-> time_step, stop_time |-> stop_time,
                 progress |-> TRUE, print_step |-> DefaultPrintStep]
    /\ sBefore' = sFile
    /\ NoRead
    /\ UNCHANGED <<kernelVars, sPath, wPc, wData>>

\* the integrator part of a behaviour that is about another component
IntegIdle == iOp = "new" /\ iArgs = NoArgs /\ iOut = Raised

----------------------------------------------------------------------------
(* Integrals of motion and their Siminteg cache *)

\* the sum of the entries of an array
RECURSIVE SeqSum(_)
SeqSum(a) == IF a = <<>> THEN 0 ELSE Head(a) + SeqSum(Tail(a))

\* _pairwise_potential_energy(r, mu) for r of shape (3, n), in units with
\* G = 1: the sum over the pairs i < j of -mu_i * mu_j / |r_i - r_j|
PairwisePotentialEnergy(r, mu) ==
    LET n == Len(r[1])
        D2(i, j) == SeqSum([c \in 1..3 |-> (r[c][i] - r[c][j]) * (r[c][i] - r[c][j])])
        U(i, j) == -Trunc(mu[i] * mu[j], Isqrt(D2(i, j), 0, D2(i, j) + 1))
    IN  SeqSum([i \in 1..n |-> SeqSum([j \in 1..n |-> IF i < j THEN U(i, j) ELSE 0])])

\* the loop of calculate_integrals: per step the total energy and the
\* angular-momentum vector, from the visualization views of the step
ComputeIntegrals(sim, mu) ==
    Array([t \in 1..Len(sim) |->
        LET r == RVVisGet(sim, "r", BareKey(IntIdx(t - 1)))[1]
            v == RVVisGet(sim, "v", BareKey(IntIdx(t - 1)))[1]
            n == Len(mu)
            T == SeqSum([b \in 1..n |->
                     mu[b] * SeqSum([c \in 1..3 |-> v[c][b] * v[c][b]])]) \div 2
            p == [c \in 1..3 |-> [b \in 1..n |-> mu[b] * v[c][b]]]
            Cross(c1, c2) == SeqSum([b \in 1..n |-> r[c1][b] * p[c2][b] - r[c2][b] * p[c1][b]])
        IN  <<T + PairwisePotentialEnergy(r, mu), Cross(2, 3), Cross(3, 1), Cross(1, 2)>>])

\* a packed integer field of a header read as a float64: a bit pattern that is
\* none of the values the payloads of the model hold
BitPattern(word, a, b) == -(1000000 * word + 1000 * a + b)

\* the 64 header bytes read as eight float64 words; the dt field of a
\* Siminteg header is one aligned word, the padding reads 0.0
HeaderWords(h) ==
    IF h.magic = "SIMINTEG"
    THEN <<BitPattern(1, 1, 0), BitPattern(2, h.version, h.steps),
           BitPattern(3, 0, h.dims[1]), h.dt2, 0, 0, 0, 0>>
    ELSE <<BitPattern(1, 0, 0), BitPattern(2, h.version, h.steps),
           BitPattern(3, 0, h.dims[1]), BitPattern(4, h.dims[2], h.dt2),
           BitPattern(5, 0, h.dt2), 0, 0, 0>>

\* np.memmap(cache_file, dtype="float64", mode="r", shape=(n_steps, 4)): no
\* offset, so the mapping starts at the first byte of the file; a file
\* shorter than the shape is refused
RawMemmap(file, n_steps) ==
    LET raw == IF file.hdr = None THEN <<>>
               ELSE HeaderWords(file.hdr[1]) \o file.payload
    IN  IF Len(raw) < n_steps * IntegDim THEN [ok |-> FALSE, mm |-> <<>>]
        ELSE [ok |-> TRUE,
              mm |-> [s \in 1..n_steps |-> [c \in 1..IntegDim |->
                         raw[(s - 1) * IntegDim + c]]]]

\* gravitational parameters of the bodies of a trajectory
IntegralMus(bodies) == [b \in 1..bodies |-> 2 * b]

\* calculate_integrals(sim, mu, cache_file=sPath): an existing cache file is
\* mapped and returned; otherwise the integrals are computed, written with
\* write_siminteg and returned. 
CalculateIntegrals(sim, mu) ==
    /\ Settled
    /\ wPc = "idle"
    /\ sBefore' = sFile
    /\ cArgs' = [sim |-> sim, mu |-> mu]
    /\ IF sFile.exists
       THEN \E m \in {RawMemmap(sFile, Len(sim))} :
               /\ sOp' = IF m.ok THEN "integrals_loaded" ELSE "integrals_raised"
               /\ sRes' = m.mm
               /\ sKey' = NoKey
               /\ UNCHANGED <<sFile, sOrigin, sData, sT>>
       ELSE \E integrals \in {ComputeIntegrals(sim, mu)} :
            \E v \in {ValidateSimintegData(sPath, integrals)} :
               IF v.ok
               THEN /\ sFile' = [exists |-> TRUE,
                                 hdr |-> Some(SimintegHeader(Len(integrals), IntegDim,
                                                             DtFloat(v.dt))),
                                 payload |-> Flatten2(integrals)]
                    /\ sOrigin' = "integrals" /\ sT' = None
                    /\ sData' = integrals
                    /\ sOp' = "integrals_computed"
                    /\ sRes' = integrals
                    /\ sKey' = NoKey
               ELSE /\ sOp' = "integrals_raised"
                    /\ sRes' = <<>>
                    /\ sKey' = NoKey
                    /\ UNCHANGED <<sFile, sOrigin, sData, sT>>
    /\ UNCHANGED <<sPath, wPc, wData>>

----------------------------------------------------------------------------
(* BodyList *)

\* the values a body's r_0 / v_0 is reassigned to: None or a vector
BodyVectors == {None} \cup {Some(<<k, k + 1, -k>>) : k \in 1..MaxVec}

\* np.hstack([body.<field> for body in self if body.<field> is not None]):
\* raises on an empty list
StackField(bodies, field) ==
    LET present == SelectSeq(bodies, LAMBDA b : b[field] # None)
    IN  IF present = <<>> THEN [ok |-> FALSE, value |-> <<>>]
        ELSE [ok |-> TRUE, value |-> HStack([i \in 1..Len(present) |-> present[i][field][1]])]

\* the property r_0 / v_0: the cached vector if there is one, else the
\* stacked vectors, which are cached
ReadField(field) ==
    IF bCache[field] # None
    THEN /\ bRes' = [ok |-> TRUE, value |-> bCache[field][1]]
         /\ UNCHANGED bCache
    ELSE \E st \in {StackField(bBodies, field)} :
            /\ bRes' = st
            /\ bCache' = IF st.ok THEN [bCache EXCEPT ![field] = Some(st.value)]
                         ELSE bCache

\* body_list.r_0
ReadR0 ==
    /\ bOp' = "r_0"
    /\ ReadField("r_0")
    /\ UNCHANGED bBodies

\* body_list.v_0
ReadV0 ==
    /\ bOp' = "v_0"
    /\ ReadField("v_0")
    /\ UNCHANGED bBodies

NoResult == [ok |-> FALSE, value |-> <<>>]

\* body_list[i].r_0 = value: a plain attribute assignment on the Body
AssignR0(i, value) ==
    /\ bBodies[i].r_0 # value
    /\ bBodies' = [bBodies EXCEPT ![i].r_0 = value]
    /\ bOp' = "assign_r_0"
    /\ bRes' = NoResult
    /\ UNCHANGED bCache

\* body_list[i].v_0 = value
AssignV0(i, value) ==
    /\ bBodies[i].v_0 # value
    /\ bBodies' = [bBodies EXCEPT ![i].v_0 = value]
    /\ bOp' = "assign_v_0"
    /\ bRes' = NoResult
    /\ UNCHANGED bCache

\* BodyList(value): one or two bodies with an r_0 and a v_0 each, nothing
\* cached
BodyInit ==
    /\ \E n \in 1..MaxBodies :
          bBodies = [i \in 1..n |-> [r_0 |-> Some(<<10 * i, 0, 0>>),
                                     v_0 |-> Some(<<0, 10 * i, 0>>)]]
    /\ bCache = [r_0 |-> None, v_0 |-> None]
    /\ bOp = "new"
    /\ bRes = NoResult

\* the body list of a behaviour that is about another component
BodyIdle ==
    /\ bBodies = <<>> /\ bCache = [r_0 |-> None, v_0 |-> None]
    /\ bOp = "new" /\ bRes = NoResult

----------------------------------------------------------------------------
(* Reader sessions *)

\* SimstateMemmap(filename) / SimintegMemmap(filename) succeeds and the
\* object is kept: its np.memmap stays mapped on the file
OpenSession ==
    /\ rSess = None
    /\ wPc = "idle"
    /\ IF sPath.ext = "simstate" THEN ReadSimstate(sPath, sFile).ok
       ELSE ReadSiminteg(sPath, sFile).ok
    /\ rSess' = Some(sFile)

\* the object is dropped and its mapping released
CloseSession ==
    /\ rSess # None
    /\ rSess' = None

\* no reader session
SessionIdle == rSess = None

----------------------------------------------------------------------------
(* Visualization: playback frames and the trail caches *)

\* A trail point is the position of the bodies at one simulation step, taken
\* from sim.mm.r_vis; it is held as the number of that step. Subtracting a
\* focus body's position and scaling to the screen map a point to a point and
\* are left out.

\* sim.mm.r_vis, one row per step 0 .. sim.steps
RVis == [f \in 1..(MaxSimSteps + 1) |-> f - 1]

\* CircularTrailBuffer(array)
Buffer(array) == [arr |-> array, head |-> 0]

\* buf[-1, :, :] = value
BufSetLast(buf, value) ==
    [buf EXCEPT !.arr = TrailSetInt(buf.arr, buf.head, Len(buf.arr), -1, value)]

\* buf.add_points(points)
BufAddPoints(buf, points) ==
    Let(TrailAddPoints(buf.arr, buf.head, Len(buf.arr), points),
        LAMBDA r : [arr |-> r.arr, head |-> r.head])

\* the remainder a rebuild leaves in trail_frame, without the modulo
RebuildRemainderUnreduced(frame, initial_point, trail_step) == frame - initial_point

\* (self.frame - initial_point) % self.trail_step
RebuildRemainder(frame, initial_point, trail_step) == (frame - initial_point) % trail_step

\* The operators below take and return x = [v, calls, added, base]: v the
\* fields of the Visualization, calls the log of the trail functions called
\* so far in the frame, added and base the samples the relative trail got.

\* rebuild_relative_trail_cache
RebuildRelativeTrailCache(x) ==
    LET v == x.v
        L == v.trail_length
        initial_point == Max(0, v.frame - L * v.trail_step + 1)
        current_pos == NpSlice(RVis, Slice(Some(initial_point), Some(v.frame + 1),
                                           Some(v.trail_step)))
        n == Len(current_pos)
        new_cache == [p \in 1..L |->
                         IF p > L - n THEN current_pos[p - (L - n)] ELSE current_pos[1]]
        rolled == [p \in 1..L |-> new_cache[(p % L) + 1]]
    IN  [x EXCEPT !.v.relative_trail = BufSetLast(Buffer(rolled), At(RVis, v.frame)),
                  !.v.rebuild_relative_trail = FALSE,
                  !.v.trail_frame = RebuildRemainder(v.frame, initial_point, v.trail_step),
                  !.calls = Append(@, "rebuild_relative_trail_cache"),
                  !.added = <<>>,
                  !.base = current_pos[n]]

\* rebuild_trail_cache: the display trail is the whole relative trail
RebuildTrailCache(x) ==
    LET rel == x.v.relative_trail
    IN  [x EXCEPT !.v.trail = Buffer(TrailReadAll(rel.arr, rel.head, Len(rel.arr))),
                  !.v.rebuild_trail = FALSE,
                  !.calls = Append(@, "rebuild_trail_cache")]

\* build_trail_cache
BuildTrailCache(x) ==
    Let(RebuildTrailCache(RebuildRelativeTrailCache(x)),
        LAMBDA y : [y EXCEPT !.v.trail_length_changed = FALSE])

\* update_relative_trail_cache
UpdateRelativeTrailCache(x) ==
    LET v == x.v
        trail_points_to_add == v.trail_frame \div v.trail_step
        trail_frame_remainder == v.trail_frame % v.trail_step
        x1 == [x EXCEPT !.v.points_to_add = trail_points_to_add,
                        !.calls = Append(@, "update_relative_trail_cache")]
        start_frame == Max(0, v.frame - v.trail_frame)
        end_frame == Min(MaxSimSteps,
                         v.frame - v.trail_frame + trail_points_to_add * v.trail_step)
        positions_to_add == NpSlice(RVis, Slice(Some(start_frame), Some(end_frame),
                                                Some(v.trail_step)))
    IN  IF trail_points_to_add >= v.trail_length
        THEN RebuildRelativeTrailCache(x1)
        ELSE Let(IF trail_points_to_add > 0 /\ start_frame < end_frame
                 THEN [x1 EXCEPT !.v.relative_trail = BufAddPoints(@, positions_to_add),
                                 !.added = @ \o positions_to_add]
                 ELSE x1,
                 LAMBDA x2 :
                     [x2 EXCEPT !.v.relative_trail = BufSetLast(@, At(RVis, v.frame)),
                                !.v.trail_frame = trail_frame_remainder])

\* update_trail_cache
UpdateTrailCache(x) ==
    LET v == x.v
        rel == v.relative_trail
        trail_points_to_update == v.points_to_add
        needs_rebuild ==
            \/ v.trail_focus_body_idx # v.focus_body_idx
            \/ v.rebuild_trail
            \/ trail_points_to_update >= v.trail_length
        x1 == [x EXCEPT !.calls = Append(@, "update_trail_cache")]
        positions_to_update ==
            TrailGetSlice(rel.arr, rel.head, Len(rel.arr),
                          Slice(Some(-trail_points_to_update), None, None))
    IN  IF needs_rebuild THEN RebuildTrailCache(x1)
        ELSE Let(IF trail_points_to_update > 0
                 THEN [x1 EXCEPT !.v.trail = BufAddPoints(@, positions_to_update)]
                 ELSE x1,
                 LAMBDA x2 :
                     [x2 EXCEPT !.v.trail =
                         BufSetLast(@, TrailGetInt(rel.arr, rel.head, Len(rel.arr), -1))])

\* update_trail
UpdateTrail(x) ==
    Let(IF x.v.trail_length_changed THEN BuildTrailCache(x) ELSE x, LAMBDA x1 :
    Let(IF x1.v.rebuild_relative_trail THEN RebuildRelativeTrailCache(x1)
        ELSE UpdateRelativeTrailCache(x1), LAMBDA x2 :
    IF x2.v.rebuild_trail THEN RebuildTrailCache(x2) ELSE UpdateTrailCache(x2)))

NoLog == [input |-> FALSE, wrapped |-> FALSE, pending |-> 0, calls |-> <<>>]

\* Visualization(sim): trail_step = max(1, int(trail_step_time / dt)) and
\* trail_length = int(trail_length_time / trail_step_time) from the
\* constants, the cache with its class defaults, no buffer allocated yet
VisInit ==
    /\ \E step \in 1..MaxTrailStep, length \in 1..MaxLen :
          vis = [frame |-> 0, fractional |-> 0,
                 trail_step |-> step, trail_length |-> length,
                 points_to_add |-> 0, trail_length_changed |-> TRUE,
                 focus_body_idx |-> None, trail_focus_body_idx |-> None,
                 trail_frame |-> 0,
                 rebuild_trail |-> TRUE, rebuild_relative_trail |-> TRUE,
                 relative_trail |-> Buffer(<<>>), trail |-> Buffer(<<>>)]
    /\ vOp = "new"
    /\ vInput = TRUE
    /\ vLog = NoLog
    /\ vAdded = <<>>
    /\ vBase = 0

\* reset_parameters
ResetParameters(v) ==
    [v EXCEPT !.frame = 0, !.focus_body_idx = None, !.trail_focus_body_idx = None,
              !.rebuild_relative_trail = TRUE, !.rebuild_trail = TRUE]

\* update_parameters after a value display changed: the Step slider sets the
\* frame, Trail Step and Trail Length set trail_step and trail_length
UpdateParameters(v, ev) ==
    IF ev.type = "step"
    THEN [v EXCEPT !.frame = ev.val,
                   !.rebuild_relative_trail = TRUE, !.rebuild_trail = TRUE]
    ELSE [v EXCEPT !.trail_step = ev.step, !.trail_length = ev.length,
                   !.trail_length_changed = TRUE]

\* the events of one handle_input call: a zoom, rotation or resize; a mouse
\* click on body 0 or on no body; the R key; a changed value display
VisEvents ==
    {[type |-> "view"], [type |-> "reset"]}
    \cup {[type |-> "click", hit |-> h] :
             h \in {None, Some(0)}}
    \cup {[type |-> "step", val |-> f] : f \in 0..(MaxSimSteps - 1)}
    \cup {[type |-> "trail", step |-> st, length |-> l] :
             st \in 1..MaxTrailStep, l \in 1..MaxLen}

\* handle_input on one event; at most one event arrives between two frames
HandleInput(ev) ==
    /\ vOp = "frame"
    /\ ev.type = "step" => ev.val # vis.frame
    /\ ev.type = "trail" => (ev.step # vis.trail_step \/ ev.length # vis.trail_length)
    /\ vis' =
          CASE ev.type = "view" -> [vis EXCEPT !.rebuild_trail = TRUE]
            [] ev.type = "reset" -> ResetParameters(vis)
            [] ev.type = "click" ->
                  [vis EXCEPT
                      !.focus_body_idx =
                          IF ev.hit # None /\ @ # ev.hit THEN ev.hit ELSE @,
                      !.trail_focus_body_idx =
                          IF ev.hit # None /\ vis.focus_body_idx = ev.hit
                          THEN ev.hit ELSE @,
                      !.rebuild_relative_trail = TRUE, !.rebuild_trail = TRUE]
            [] OTHER -> UpdateParameters(vis, ev)
    /\ vOp' = "input"
    /\ vInput' = TRUE
    /\ UNCHANGED <<vLog, vAdded, vBase>>

\* advance_frame when speed * real_time_elapsed / dt is halves half steps:
\* the whole steps advance the frame, the rest is kept in _fractional_steps;
\* then update_trail
AdvanceFrame(halves) ==
    LET total_steps == halves + vis.fractional
        steps_to_advance == total_steps \div 2
        moved == [vis EXCEPT !.fractional = total_steps % 2,
                             !.frame = @ + steps_to_advance,
                             !.trail_frame = @ + steps_to_advance]
        wrapped == steps_to_advance > 0 /\ moved.frame >= MaxSimSteps
        v1 == IF wrapped
              THEN [moved EXCEPT !.frame = 0, !.rebuild_relative_trail = TRUE,
                                 !.rebuild_trail = TRUE]
              ELSE moved
    IN  \E x \in {UpdateTrail([v |-> v1, calls |-> <<>>,
                               added |-> vAdded, base |-> vBase])} :
           /\ vis' = x.v
           /\ vLog' = [input |-> vInput, wrapped |-> wrapped,
                       pending |-> v1.trail_frame \div v1.trail_step,
                       calls |-> x.calls]
           /\ vAdded' = x.added
           /\ vBase' = x.base
           /\ vInput' = FALSE
           /\ vOp' = "frame"

\* no visualization
VisIdle ==
    /\ vis = <<>> /\ vOp = "new" /\ vInput = FALSE /\ vLog = NoLog
    /\ vAdded = <<>> /\ vBase = 0

----------------------------------------------------------------------------
(* Specifications *)

\* what a step of one component leaves alone
TrailFrame ==
    UNCHANGED <<storeVars, kernelVars, integVars, bodyVars, sessionVars, visVars>>

StoreFrame ==
    UNCHANGED <<trailVars, kernelVars, integVars, bodyVars, sessionVars, visVars>>

KernelFrame ==
    UNCHANGED <<trailVars, storeVars, integVars, bodyVars, sessionVars, visVars>>

IntegFrame == UNCHANGED <<trailVars, bodyVars, sessionVars, visVars>>

BodyFrame ==
    UNCHANGED <<trailVars, storeVars, kernelVars, integVars, sessionVars, visVars>>

SessionFrame ==
    UNCHANGED <<trailVars, storeVars, kernelVars, integVars, bodyVars, visVars>>

VisFrame ==
    UNCHANGED <<trailVars, storeVars, kernelVars, integVars, bodyVars, sessionVars>>

InitTrail ==
    /\ TrailInit /\ StoreIdle /\ KernelIdle /\ IntegIdle /\ BodyIdle /\ SessionIdle
    /\ VisIdle

NextTrail ==
    \/ \E k \in 1..(tLen + 1) : AddPoints(k) /\ TrailFrame
    \/ \E a \in 0..tLen : \E b \in a..tLen : GetSlice(a, b) /\ TrailFrame
    \/ \E i \in (-tLen)..(tLen - 1) : GetInt(i) /\ TrailFrame

SpecTrail == InitTrail /\ [][NextTrail]_vars

InitStore ==
    /\ StoreInit /\ TrailIdle /\ KernelIdle /\ IntegIdle /\ BodyIdle /\ SessionIdle
    /\ VisIdle

NextStore ==
    \/ \E data \in Payloads : \E t \in TimeVectors(Len(data)) :
          WriteSimstateOpen(data, t) /\ StoreFrame
    \/ ReadT /\ StoreFrame
    \/ WriteSimstateHeader /\ StoreFrame
    \/ WriteSimstatePayload /\ StoreFrame
    \/ WriteKilled /\ StoreFrame
    \/ \E seed \in 0..MaxSeed, rows \in 1..MaxRows :
          WriteSiminteg(IntegPayload(seed, rows)) /\ StoreFrame
    \/ \E f \in ExternalFiles : ExternalFile(f) /\ StoreFrame
    \/ \E rv \in {"r", "v"}, key \in ViewKeys : ReadView(rv, key) /\ StoreFrame
    \/ \E rv \in {"r", "v"}, key \in ViewKeys : ReadVis(rv, key) /\ StoreFrame
    \/ \E sim \in Payloads :
          CalculateIntegrals(sim, IntegralMus(Len(sim[1]))) /\ StoreFrame
    \/ OpenSiminteg /\ StoreFrame
    \/ OpenCache /\ StoreFrame

SpecStore == InitStore /\ [][NextStore]_vars

InitKernel ==
    /\ KernelInit /\ TrailIdle /\ StoreIdle /\ IntegIdle /\ BodyIdle /\ SessionIdle
    /\ VisIdle

NextKernel == \E fm \in FastMathOutcomes : Evaluate(fm) /\ KernelFrame

SpecKernel == InitKernel /\ [][NextKernel]_vars

InitInteg == IntegInit /\ TrailIdle /\ BodyIdle /\ SessionIdle /\ VisIdle

NextInteg ==
    \/ \E kernel \in Kernels, time_step \in TimeSteps, stop_time \in StopTimes :
          GenericEuler(kernel, time_step, stop_time) /\ IntegFrame
    \/ \E kernel \in Kernels, time_step \in TimeSteps, stop_time \in StopTimes :
          GenericRk4(kernel, time_step, stop_time) /\ IntegFrame
    \/ \E time_step \in TimeSteps, stop_time \in StopTimes, progress \in BOOLEAN,
          print_step \in 1..MaxPrintStep, oob \in OutOfBoundsOutcomes :
          FusedRk4(time_step, stop_time, progress, print_step, oob) /\ IntegFrame
    \/ \E scheme \in {"euler", "rk4"}, kernel \in Kernels \cup {"euler_capable"},
          time_step \in TimeSteps, stop_time \in StopTimes :
          CallIntegrator(scheme, kernel, time_step, stop_time) /\ IntegFrame
    \/ \E integrator \in {"euler", "rk4"}, kernel \in Kernels,
          time_step \in TimeSteps, stop_time \in StopTimes :
          Propagate(integrator, kernel, time_step, stop_time) /\ IntegFrame

SpecInteg == InitInteg /\ [][NextInteg]_vars

InitBody ==
    /\ BodyInit /\ TrailIdle /\ StoreIdle /\ KernelIdle /\ IntegIdle /\ SessionIdle
    /\ VisIdle

NextBody ==
    \/ ReadR0 /\ BodyFrame
    \/ ReadV0 /\ BodyFrame
    \/ \E i \in 1..Len(bBodies), value \in BodyVectors : AssignR0(i, value) /\ BodyFrame
    \/ \E i \in 1..Len(bBodies), value \in BodyVectors : AssignV0(i, value) /\ BodyFrame

SpecBody == InitBody /\ [][NextBody]_vars

\* reader sessions interleaved with the writers of the same path
NextShared ==
    \/ OpenSession /\ SessionFrame
    \/ CloseSession /\ SessionFrame
    \/ \E data \in Payloads : WriteSimstateOpen(data, None) /\ StoreFrame
    \/ WriteSimstateHeader /\ StoreFrame
    \/ WriteSimstatePayload /\ StoreFrame
    \/ \E seed \in 0..MaxSeed, rows \in 1..MaxRows :
          WriteSiminteg(IntegPayload(seed, rows)) /\ StoreFrame

SpecShared == InitStore /\ [][NextShared]_vars

InitVis ==
    /\ VisInit /\ TrailIdle /\ StoreIdle /\ KernelIdle /\ IntegIdle /\ BodyIdle
    /\ SessionIdle

\* the main loop: handle_input, then advance_frame
NextVis ==
    \/ \E ev \in VisEvents : HandleInput(ev) /\ VisFrame
    \/ \E halves \in 0..MaxAdvance : AdvanceFrame(halves) /\ VisFrame

SpecVis == InitVis /\ [][NextVis]_vars

----------------------------------------------------------------------------
(* Claims about the circular trail buffer *)

TrailAdded == tOp \in {"add", "add_raised"}

\* C3: after add_points with k points, 1 <= k < L, the full logical range
\* reads the L-k newest points held before, followed by the k new points.
C3_AppendKeepsNewest ==
    (TrailAdded /\ Len(tPts) < tLen) =>
        /\ tOp = "add"
        /\ TrailReadAll(tArr, tHead, tLen)
               = SubSeq(tPrev, Len(tPts) + 1, tLen) \o tPts

\* C4 as stated: after add_points with k >= L points the full logical range
\* reads the L most recent of the appended points, oldest first.
C4_AppendAtLeastLen ==
    (TrailAdded /\ Len(tPts) >= tLen) =>
        /\ tOp = "add"
        /\ TrailReadAll(tArr, tHead, tLen)
               = SubSeq(tPts, Len(tPts) - tLen + 1, Len(tPts))

\* C4 as amended: add_points with exactly L points reads back exactly those
\* points, oldest first, whatever the contents and head were; add_points
\* with more than L points raises and leaves the buffer as it was.
C4_AppendExactlyLen ==
    /\ (TrailAdded /\ Len(tPts) = tLen) =>
           /\ tOp = "add"
           /\ TrailReadAll(tArr, tHead, tLen) = tPts
    /\ (TrailAdded /\ Len(tPts) > tLen) =>
           /\ tOp = "add_raised"
           /\ TrailReadAll(tArr, tHead, tLen) = tPrev

\* a buffer of capacity >= 2 whose head is inside the array took exactly L
\* points, so the write wrapped
C4_Witness ==
    /\ tOp = "add" /\ Len(tPts) = tLen /\ tLen >= 2 /\ tHead > 0
    /\ tPrev # tPts

\* C20: for every head and every logical range [a, b) with 0 <= a < b <= L,
\* buf[a:b] returns b - a elements, element i the backing array's element at
\* (head + a + i) mod L; an integer index i, negative included, reads the
\* element at (head + i) mod L.
C20_ReadExact ==
    /\ (tOp = "get_slice" /\ tKey.a < tKey.b) =>
           /\ Len(tRes) = tKey.b - tKey.a
           /\ \A i \in 0..(tKey.b - tKey.a - 1) :
                 At(tRes, i) = At(tArr, (tHead + tKey.a + i) % tLen)
    /\ tOp = "get_int" => tRes = <<At(tArr, (tHead + tKey.a) % tLen)>>

\* a range that starts after logical index 0 and wraps past the end of the
\* backing array was read from a buffer that has taken points
C20_Witness ==
    /\ tOp = "get_slice" /\ tClock > tLen
    /\ tKey.a > 0 /\ tHead + tKey.a < tLen /\ tHead + tKey.b > tLen
    /\ Len(tRes) >= 2

\* C23: add_points with k points, 1 <= k <= L, returns, moves the head to
\* (old head + k) mod L and changes exactly k physical slots of the backing
\* array, the other L - k slots keeping their contents; the head stays in
\* [0, L).
C23_AppendFrame ==
    [][(tOp' \in {"add", "add_raised"} /\ Len(tPts') <= tLen) =>
          /\ tOp' = "add"
          /\ tHead' = (tHead + Len(tPts')) % tLen
          /\ tHead' >= 0 /\ tHead' < tLen
          /\ Len(tArr') = tLen
          /\ Cardinality({p \in 1..tLen : tArr'[p] # tArr[p]}) = Len(tPts')
          /\ \A p \in 1..tLen :
                tArr'[p] # tArr[p] => \E i \in 1..Len(tPts') : tArr'[p] = tPts'[i]]_vars

\* two points, fewer than L, were appended and the write was split over the
\* end of the backing array
C23_Witness ==
    /\ tOp = "add" /\ tLen >= 3 /\ Len(tPts) = 2
    /\ tArr[tLen] = tPts[1] /\ tArr[1] = tPts[2]

\* C29: reading an empty logical range, start = stop, returns zero elements,
\* whatever the head is.
C29_EmptyRangeReadsNothing ==
    (tOp = "get_slice" /\ tKey.a = tKey.b) => Len(tRes) = 0

----------------------------------------------------------------------------
(* Claims about the Simstate / Siminteg stores *)

\* a[ix] with the indexed axis kept: numpy's selection for a slice, the one
\* element i (counted from the end when negative) for a scalar
RefSelect(a, ix) ==
    IF ix.kind = "int"
    THEN <<At(a, IF ix.i < 0 THEN ix.i + Len(a) ELSE ix.i)>>
    ELSE NpSlice(a, ix.s)

\* a scalar index that numpy accepts for an axis of length len
IndexValid(ix, len) == ix.kind = "int" => (ix.i >= -len /\ ix.i < len)

\* payload[step, body, 0:3] (3:6 for v)
RefView(payload, rv, key) ==
    LET rows == RefSelect(payload, KeyStep(key))
        lo == IF rv = "r" THEN 0 ELSE 3
    IN  [i \in 1..Len(rows) |->
            LET bs == RefSelect(rows[i], KeyBody(key))
            IN  [j \in 1..Len(bs) |-> [c \in 1..3 |-> bs[j][lo + c]]]]

\* C1: a payload written with write_simstate and reopened reads back through
\* the r and v views as payload[step, body, 0:3] and payload[step, body, 3:6]
\* for every scalar, slice and strided-slice index.
C1_ViewRoundTrip ==
    (/\ sOp = "view" /\ sOrigin = "writer" /\ sData # <<>>
     /\ IndexValid(KeyStep(sKey.key), Len(sData))
     /\ IndexValid(KeyBody(sKey.key), Len(sData[1])))
        => sRes = RefView(sData, sKey.rv, sKey.key)

OpenRaised == sOp \in {"open_raised", "open_integ_raised", "open_cache_raised"}

Opened == sOp \in {"view", "vis", "open_integ", "open_cache"}

\* the header's dt or its step count minus one differs from the filename's
HeaderDisagrees ==
    /\ sFile.exists /\ sFile.hdr # None
    /\ \/ sFile.hdr[1].dt2 # DtFloat(sPath.dt)
       \/ sFile.hdr[1].steps - 1 # sPath.steps

\* C2: opening a Simstate or Siminteg file raises whenever the header's dt or
\* steps - 1 differs from the filename's, and succeeds only when both agree.
C2_OpenRejectsMismatch ==
    /\ (OpenRaised \/ Opened) /\ HeaderDisagrees => OpenRaised
    /\ Opened => (sFile.exists /\ sFile.hdr # None /\ ~HeaderDisagrees)

\* C9: a write_simstate call whose destination exists fails and leaves the
\* existing file's bytes as they were.
C9_CreateOrFail ==
    (sOp \in {"write_open", "write_raised"} /\ sBefore.exists)
        => (sOp = "write_raised" /\ sFile = sBefore)

\* C10: at every point of a write, the destination does not exist or carries
\* no valid header unless its full payload has been written.
C10_NoValidHeaderBeforePayload ==
    (sOrigin = "writer" /\ sFile.exists /\ ValidateSimstateFile(sPath, sFile).ok)
        => Len(sFile.payload) >= SimstateNeed(sFile.hdr[1])

\* C28: in the r, v and visualization views a scalar step or body index i
\* selects exactly the one element i along its axis and keeps the axis with
\* length 1, for every valid index, negative ones included: r[-1] is the
\* final step with shape (1, bodies, 3).
C28_ScalarKeepsAxis ==
    (/\ sOp \in {"view", "vis"}
     /\ (KeyStep(sKey.key).kind = "int" \/ KeyBody(sKey.key).kind = "int")
     /\ IndexValid(KeyStep(sKey.key), sFile.hdr[1].steps)
     /\ IndexValid(KeyBody(sKey.key), sFile.hdr[1].dims[1])) =>
        LET ref == RefView(ReadSimstate(sPath, sFile).mm, sKey.rv, sKey.key)
        IN  /\ KeyStep(sKey.key).kind = "int" => Len(sRes) = 1
            /\ sRes = IF sOp = "view" THEN ref ELSE Transpose021(ref, 3)

\* the path is no name of the writer's extension, or the steps it encodes
\* are not the row count of data minus one
DataMismatch(ext, data) == sPath.ext # ext \/ sPath.steps # Len(data) - 1

\* C25: write_simstate and write_siminteg raise when the row count of the
\* data minus one differs from the steps of the filename, or the filename is
\* not name__dt__steps with the writer's extension, and a call that raises
\* leaves the destination as it was: not created, not truncated, not modified.
C25_WritersRejectFirst ==
    /\ (sOp \in {"write_open", "write_raised"} /\ DataMismatch("simstate", wData))
           => (sOp = "write_raised" /\ sFile = sBefore)
    /\ (/\ sOp \in {"write_integ_done", "write_integ_raised"}
        /\ DataMismatch("siminteg", IF sOp = "write_integ_done" THEN sData ELSE wData))
           => (sOp = "write_integ_raised" /\ sFile = sBefore)
    /\ sOp \in {"write_raised", "write_integ_raised"} => sFile = sBefore

\* write_simstate was called on an existing, complete Simstate file with an
\* array of another row count than the filename encodes, and raised
C25_Witness ==
    /\ sOp = "write_raised" /\ sPath.ext = "simstate"
    /\ sPath.steps # Len(wData) - 1
    /\ sBefore.exists /\ sBefore.hdr # None /\ sBefore.payload # <<>>

\* the key selects every step and every body
FullKey(key) ==
    /\ KeyStep(key) = SliceIdx(Slice(None, None, None))
    /\ KeyBody(key) = SliceIdx(Slice(None, None, None))

\* C11: r_vis[key] (v_vis[key]) is r[key] (v[key]) with its last two axes
\* swapped: shape (selected steps, 3, selected bodies), element [s, c, b] the
\* element [s, b, c] of the r (v) selection; over the full range of a written
\* file that is the payload element [s, b, c] (c + 3 for velocities).
C11_VisIsTransposedView ==
    sOp = "vis" =>
        LET base == RVGet(ReadSimstate(sPath, sFile).mm, sKey.rv, sKey.key)
            lo == IF sKey.rv = "r" THEN 0 ELSE 3
        IN  /\ Len(sRes) = Len(base)
            /\ \A s \in 1..Len(sRes) :
                  /\ Len(sRes[s]) = 3
                  /\ \A c \in 1..3 :
                        /\ Len(sRes[s][c]) = Len(base[s])
                        /\ \A b \in 1..Len(base[s]) : sRes[s][c][b] = base[s][b][c]
            /\ (sOrigin = "writer" /\ sData # <<>> /\ FullKey(sKey.key)) =>
                  /\ Len(sRes) = Len(sData)
                  /\ \A s \in 1..Len(sData), c \in 1..3 :
                        /\ Len(sRes[s][c]) = Len(sData[s])
                        /\ \A b \in 1..Len(sData[s]) :
                              sRes[s][c][b] = sData[s][b][lo + c]

\* the velocity visualization view of a written file of two bodies read with
\* a strided step selection and with the full range
C11_Witness ==
    /\ sOp = "vis" /\ sOrigin = "writer" /\ sData # <<>>
    /\ sKey.rv = "v" /\ Len(sRes) >= 2 /\ Len(sRes[1][1]) = 2
    /\ sRes[1][1][2] # sRes[1][2][1]

----------------------------------------------------------------------------
(* Claims about the force kernels *)

\* the sum of the values of a function with a finite domain
RECURSIVE SetSum(_)
SetSum(f) ==
    IF DOMAIN f = {} THEN 0
    ELSE LET x == CHOOSE x \in DOMAIN f : TRUE
         IN  f[x] + SetSum([y \in DOMAIN f \ {x} |-> f[y]])

\* no two bodies of the evaluated state share a position
DistinctPositions == \A i, j \in 1..kN : i # j => Dist2(kState, i, j) # 0

----------------------------------------------------------------------------
(* Claims about the integrators and the propagator *)

\* C6: for every dt > 0 and stop_time >= 0 the generic Euler and RK4
\* integrators return exactly floor(stop_time / dt) + 1 rows, row 0 the
\* initial state and each later row one step of the scheme from the row
\* before it.
C6_GenericRowCount ==
    (iOp \in {"euler", "rk4"} /\ iArgs.time_step > 0 /\ iArgs.stop_time >= 0) =>
        /\ iOut.ok
        /\ Len(iOut.rows) = (iArgs.stop_time \div iArgs.time_step) + 1
        /\ iOut.rows[1] = kState
        /\ \A i \in 1..(Len(iOut.rows) - 1) :
              iOut.rows[i + 1] =
                  Step(iArgs.scheme, iOut.rows[i], iArgs.time_step, iArgs.kernel, kN, kMu)

\* C7: for the same (y0, dt, stop_time, n, mu) the fused RK4 path of the
\* Numba kernel returns the trajectory of the generic RK4 loop: as many rows,
\* row 0 = y0, every row the four-stage step of the row before it.
C7_FusedEqualsGeneric ==
    (iOp = "rk4_backend" /\ iArgs.time_step > 0 /\ iArgs.stop_time >= 0) =>
        iOut = Generic("rk4", kState, iArgs.time_step, iArgs.stop_time, "numba", kN, kMu)

\* C8: propagate with time_step <= 0, or with a body list that holds no body
\* with a mu, raises before any I/O: the destination is as it was before.
C8_PropagateFailsFast ==
    (iOp = "propagate" /\ (iArgs.time_step <= 0 \/ kN = 0)) =>
        (~iOut.ok /\ sFile = sBefore)

\* C12: simstate_view_from_state_view maps the flat (rows, 6N) integrator
\* output to (rows, N, 6) with out[s, b, c] = y[s, 3b + c] and
\* out[s, b, 3 + c] = y[s, 3N + 3b + c] for c in 0..2, and that array is what
\* propagate hands to the writer.
C12_PerBodyLayout ==
    (iOp = "propagate" /\ iOut.ok /\ sOp = "write_done") =>
        /\ Len(sData) = Len(iOut.rows)
        /\ \A s \in 1..Len(sData) :
              /\ Len(sData[s]) = kN
              /\ \A b \in 0..(kN - 1) :
                    /\ Len(sData[s][b + 1]) = 6
                    /\ \A c \in 0..2 :
                          /\ At(sData[s][b + 1], c) = At(iOut.rows[s], 3 * b + c)
                          /\ At(sData[s][b + 1], 3 + c)
                                 = At(iOut.rows[s], 3 * kN + 3 * b + c)

\* a two-body trajectory of at least two rows was propagated and written, the
\* second body's position and velocity differing in the last row
C12_Witness ==
    /\ iOp = "propagate" /\ iOut.ok /\ sOp = "write_done"
    /\ kN = 2 /\ Len(sData) >= 2
    /\ SubSeq(sData[Len(sData)][2], 1, 3) # SubSeq(sData[Len(sData)][2], 4, 6)
    /\ sData[Len(sData)][1] # sData[Len(sData)][2]

\* C24: for every row count and every print_step >= 1 the fused RK4 backend
\* with progress reporting, which integrates in batches of print_step,
\* returns the array it returns without progress reporting: as many rows,
\* none repeated, none extra.
C24_ProgressTransparent ==
    (/\ iOp = "rk4_backend" /\ iArgs.progress /\ iArgs.print_step >= 1
     /\ iArgs.time_step > 0 /\ iArgs.stop_time >= 0) =>
        iOut = Rk4Backend(kState, iArgs.time_step, iArgs.stop_time, kN, kMu,
                          FALSE, iArgs.print_step, "crash")

\* C26: Integrator.rk4 (Integrator.euler) hands the call to the kernel's
\* _rk4_backend (_euler_backend) when the kernel has one and returns its
\* result unchanged, the generic loop not run; a kernel that has only the
\* other scheme's backend, or none, gets the generic loop.
C26_BackendDelegation ==
    iOp = "integrator" =>
        iOut = IF iArgs.scheme = "rk4" /\ iArgs.kernel = "numba"
               THEN Rk4Backend(kState, iArgs.time_step, iArgs.stop_time, kN, kMu,
                               TRUE, DefaultPrintStep, "crash")
               ELSE IF iArgs.scheme = "euler" /\ iArgs.kernel = "euler_capable"
               THEN EulerBackend(kState, iArgs.time_step, iArgs.stop_time)
               ELSE Generic(iArgs.scheme, kState, iArgs.time_step, iArgs.stop_time,
                            iArgs.kernel, kN, kMu)

\* Integrator.rk4 was called with the Numba kernel on arguments for which the
\* backend and the generic loop return different arrays
C26_Witness ==
    /\ iOp = "integrator" /\ iArgs.scheme = "rk4" /\ iArgs.kernel = "numba"
    /\ iArgs.time_step > 0 /\ iOut.ok
    /\ Len(iOut.rows) < (iArgs.stop_time + iArgs.time_step - 1) \div iArgs.time_step + 1

\* C27: after propagate(time_step, stop_time, body_list, filename) succeeds,
\* the dt in the header of the written file, hence the dt and the default
\* time axis of its reader, is the time_step the trajectory was integrated
\* with.
C27_HeaderDtIsTimeStep ==
    (iOp = "propagate" /\ iArgs.time_step > 0 /\ iOut.ok /\ sOp = "write_done") =>
        /\ sFile.hdr[1].dt2 = DtFloat(iArgs.time_step)
        /\ ReadSimstate(sPath, sFile).ok
        /\ ArangeTimes(sFile.hdr[1].steps, sFile.hdr[1].dt2)
               = [i \in 1..Len(iOut.rows) |-> (i - 1) * DtFloat(iArgs.time_step)]

\* the integrals a call computes for the (sim, mu) of the last call
Computed == ComputeIntegrals(cArgs.sim, cArgs.mu)

\* C13: the Siminteg cache is transparent: a call that finds the cache file
\* a call with the same (sim, mu) wrote returns exactly what that call
\* computed and returned.
C13_CacheTransparent ==
    (sOp = "integrals_loaded" /\ sOrigin = "integrals" /\ sData = Computed)
        => sRes = sData

\* the call found a Siminteg file of the supported version whose header
\* disagrees with the (dt, steps) of the cache filename or with the step
\* count of the trajectory
CacheHeaderDisagrees ==
    /\ sPath.ext = "siminteg"
    /\ sBefore.exists /\ ReadSimintegHeader(sBefore).ok
    /\ \/ sBefore.hdr[1].dt2 # DtFloat(sPath.dt)
       \/ sBefore.hdr[1].steps - 1 # sPath.steps
       \/ sBefore.hdr[1].steps # Len(cArgs.sim)

\* C14: a call that finds a cache file whose header disagrees with the
\* requested (dt, steps) fails and leaves the file as it is; it returns no
\* data read from that file.
C14_MismatchedCacheFails ==
    (sOp \in {"integrals_loaded", "integrals_computed", "integrals_raised"}
     /\ CacheHeaderDisagrees)
        => (sOp = "integrals_raised" /\ sRes = <<>> /\ sFile = sBefore)

\* the file at the path has a header with another magic token or another
\* version than the given ones
BadFormat(magic, version) ==
    /\ sFile.exists /\ sFile.hdr # None
    /\ (sFile.hdr[1].magic # magic \/ sFile.hdr[1].version # version)

\* C15: opening a Simstate or Siminteg file whose magic is not the format's
\* or whose version is not the supported one raises and yields no view, and
\* the raise comes from the header check, not from mapping the payload.
C15_BadFormatRaises ==
    /\ (sOp \in {"view", "vis", "open_raised"} /\ BadFormat("SIMSTATE", SimstateVersion))
           => /\ sOp = "open_raised" /\ sRes = <<>>
              /\ ReadSimstate(sPath, sFile).why \in {"filename", "magic", "version"}
    /\ (sOp \in {"open_integ", "open_integ_raised"}
        /\ BadFormat("SIMINTEG", SimintegVersion))
           => /\ sOp = "open_integ_raised"
              /\ ReadSiminteg(sPath, sFile).why \in {"filename", "magic", "version"}
    /\ (sOp \in {"open_cache", "open_cache_raised"}
        /\ BadFormat("SIMSTATE", SimstateVersion))
           => /\ sOp = "open_cache_raised"
              /\ ReadSimstateCache(sPath, sFile).why \in {"filename", "magic", "version"}

\* an open was refused for a complete Simstate file whose only fault is its
\* version field
C15_Witness ==
    /\ sOp = "open_raised" /\ sPath.ext = "simstate"
    /\ sFile.exists /\ sFile.hdr # None
    /\ sFile.hdr[1].magic = "SIMSTATE" /\ sFile.hdr[1].version # SimstateVersion
    /\ ~HeaderDisagrees
    /\ Len(sFile.payload) >= SimstateNeed(sFile.hdr[1])

\* C16: the t accessor of a file written with an explicit time vector of
\* length steps opens and returns that vector; of a file written without one
\* it returns arange(steps) * dt.
C16_TimeAxis ==
    (/\ sOp \in {"t", "t_raised"} /\ sPath.ext = "simstate"
     /\ sOrigin = "writer" /\ sData # <<>>) =>
        /\ sOp = "t"
        /\ sRes = IF sT # None THEN sT[1]
                  ELSE ArangeTimes(Len(sData), DtFloat(sPath.dt))

\* C18: when two distinct bodies share a position, the kernels emit no
\* non-finite value: the coincident pair adds zero to both bodies, and every
\* other pair adds what it adds otherwise.
C18_CoincidentContributeZero ==
    (kOp = "evaluate" /\ ~DistinctPositions) =>
        \A k \in 1..(3 * kN) :
            /\ ~kOut.numpy.acc[k].nan
            /\ ~kOut.numba.acc[k].nan
            /\ \A r2 \in DistKeys(kState, kN) \ {0} :
                  LET i == ((k - 1) \div 3) + 1
                      c == ((k - 1) % 3) + 1
                      js == {j \in 1..kN : j # i /\ Dist2(kState, i, j) = r2}
                      term == [j \in js |->
                          kMu[j] * (Pos(kState, j, c) - Pos(kState, i, c))]
                  IN  /\ kOut.numpy.acc[k].c[r2] = SetSum(term)
                      /\ kOut.numba.acc[k].c[r2] = SetSum(term)

----------------------------------------------------------------------------
(* Claims about the body list *)

\* C17: every read of r_0 (v_0) of the list, also after a body's r_0 (v_0)
\* was reassigned following an earlier read, returns the concatenation of
\* the bodies' current vectors in list order.
C17_CacheCoherent ==
    /\ (bOp = "r_0" /\ StackField(bBodies, "r_0").ok)
           => bRes = StackField(bBodies, "r_0")
    /\ (bOp = "v_0" /\ StackField(bBodies, "v_0").ok)
           => bRes = StackField(bBodies, "v_0")

----------------------------------------------------------------------------
(* Claims about reader sessions *)

\* C19: while a reader session is open on the path, the file holds the bytes
\* the reader mapped when it opened, and no write call has the path open.
C19_ReadersSeeImmutableFile ==
    rSess # None => (sFile = rSess[1] /\ wPc = "idle")

----------------------------------------------------------------------------
(* Claims about the trail sampling of the playback loop *)

\* C21: from a freshly rebuilt trail on, over any sequence of frames that
\* advance any number of steps each, the trail gets exactly one sample for
\* every trail_step steps elapsed: the samples added since the rebuild are
\* the steps base + trail_step, base + 2 * trail_step, .. up to the current
\* frame, base being the newest sample of the rebuild; none is skipped and
\* none is added twice.
C21_SamplesExact ==
    vOp = "frame" =>
        vAdded = [j \in 1..((vis.frame - vBase) \div vis.trail_step) |->
                     vBase + j * vis.trail_step]

\* the functions that build a trail buffer from scratch
RebuildCalls == {"rebuild_relative_trail_cache", "rebuild_trail_cache"}

\* C22: in a frame in which no input arrived and no parameter changed, the
\* frame counter did not wrap and fewer than trail_length points were
\* pending, update_trail makes only incremental updates: it calls neither
\* rebuild_relative_trail_cache nor rebuild_trail_cache.
C22_RebuildOnDemandOnly ==
    (/\ vOp = "frame" /\ ~vLog.input /\ ~vLog.wrapped
     /\ vLog.pending < vis.trail_length) =>
        \A i \in 1..Len(vLog.calls) : vLog.calls[i] \notin RebuildCalls

\* C30: after every call of update_trail, on the incremental path or a
\* rebuild path, the steps elapsed since the last trail sample satisfy
\* 0 <= trail_frame < trail_step.
C30_TrailFrameBelowStep ==
    vOp = "frame" => (vis.trail_frame >= 0 /\ vis.trail_frame < vis.trail_step)

\* update_trail left a remainder of one step with a trail_step of two or
\* more: either on the incremental path with a sample pending, or on a
\* rebuild path whose window does not start at step 0
C30_Witness ==
    /\ vOp = "frame" /\ vis.trail_step >= 2 /\ vis.trail_frame = 1
    /\ \/ /\ vLog.pending >= 1
          /\ \A i \in 1..Len(vLog.calls) : vLog.calls[i] \notin RebuildCalls
       \/ /\ vLog.calls[1] = "rebuild_relative_trail_cache"
          /\ vis.frame >= vis.trail_length * vis.trail_step

====
